---------------------------- MODULE Spec2Model ----------------------------
(***************************************************************************)
(* A model of maskforge: the photomask renderers (bitmap, GDS, Gerber) and *)
(* the Qt tools that run them.                                             *)
(*                                                                         *)
(* Lengths given in millimetres in the source (QDoubleSpinBox values with  *)
(* three decimals) are integers in thousandths of a millimetre here and    *)
(* become Python floats where the source computes with them; GDS           *)
(* coordinates are integer micrometres.  An image is a record [w, h, px]   *)
(* with px a function from <<x, y>> (0-based, x to the right, y downwards) *)
(* to an intensity 0..255.                                                 *)
(***************************************************************************)
EXTENDS Integers, Sequences, FiniteSets, TLC

\* ------------------------------------------------------------------------
\* Integer helpers.
\* ------------------------------------------------------------------------
Min(a, b) == IF a <= b THEN a ELSE b

Max(a, b) == IF a >= b THEN a ELSE b

\* The least integer not below n / d, d > 0.
CeilDiv(n, d) == -((-n) \div d)

\* ------------------------------------------------------------------------
\* Python float arithmetic (IEEE 754 binary64, round to nearest, ties to
\* even).  A natural number of any size is a sequence of limbs in base 2^15,
\* least significant first, without leading zero limbs; a float is a record
\* [neg, m, e] that stands for (-1)^neg * m * 2^e with m below 2^53 + 1.
\* The values of the source lie far from overflow and from the subnormal
\* range, which are left out.
\* ------------------------------------------------------------------------
LimbBase == 2 ^ 15





RECURSIVE NatOf(_)
\* The natural number n >= 0 as limbs.
NatOf(n) == IF n = 0 THEN <<>> ELSE <<n % LimbBase>> \o NatOf(n \div LimbBase)

RECURSIVE IntOf(_)
\* The limbs a as an integer (a below 2^31).
IntOf(a) == IF a = <<>> THEN 0 ELSE Head(a) + LimbBase * IntOf(Tail(a))

RECURSIVE Strip(_)
Strip(a) ==
  IF a # <<>> /\ a[Len(a)] = 0 THEN Strip(SubSeq(a, 1, Len(a) - 1)) ELSE a

Limb(a, i) == IF i <= Len(a) THEN a[i] ELSE 0

RECURSIVE AddFrom(_, _, _, _)
AddFrom(a, b, i, carry) ==
  IF i > Len(a) /\ i > Len(b) THEN (IF carry = 0 THEN <<>> ELSE <<carry>>)
  ELSE LET s == Limb(a, i) + Limb(b, i) + carry
       IN  <<s % LimbBase>> \o AddFrom(a, b, i + 1, s \div LimbBase)

AddN(a, b) == AddFrom(a, b, 1, 0)

RECURSIVE SubFrom(_, _, _, _)
SubFrom(a, b, i, borrow) ==
  IF i > Len(a) THEN <<>>
  ELSE LET d == Limb(a, i) - Limb(b, i) - borrow
       IN  <<IF d < 0 THEN d + LimbBase ELSE d>> \o SubFrom(a, b, i + 1, IF d < 0 THEN 1 ELSE 0)

\* a - b for a >= b
SubN(a, b) == Strip(SubFrom(a, b, 1, 0))

RECURSIVE CmpFrom(_, _, _)
CmpFrom(a, b, i) ==
  IF i = 0 THEN 0
  ELSE IF a[i] > b[i] THEN 1 ELSE IF a[i] < b[i] THEN -1 ELSE CmpFrom(a, b, i - 1)

\* -1, 0 or 1 as a is below, equal to or above b
CmpN(a, b) ==
  IF Len(a) > Len(b) THEN 1 ELSE IF Len(a) < Len(b) THEN -1 ELSE CmpFrom(a, b, Len(a))

RECURSIVE MulSmallFrom(_, _, _, _)
MulSmallFrom(a, k, i, carry) ==
  IF i > Len(a) THEN (IF carry = 0 THEN <<>> ELSE <<carry>>)
  ELSE LET p == a[i] * k + carry
       IN  <<p % LimbBase>> \o MulSmallFrom(a, k, i + 1, p \div LimbBase)

\* a * k for 0 <= k < 2^15
MulSmall(a, k) == IF k = 0 THEN <<>> ELSE MulSmallFrom(a, k, 1, 0)

RECURSIVE DivSmallFrom(_, _, _, _)
DivSmallFrom(a, k, i, r) ==
  IF i = 0 THEN <<>>
  ELSE LET t == r * LimbBase + a[i]
       IN  Append(DivSmallFrom(a, k, i - 1, t % k), t \div k)

\* a \div k for 0 < k <= 2^15
DivSmall(a, k) == Strip(DivSmallFrom(a, k, Len(a), 0))

ZeroLimbs(n) == [i \in 1 .. n |-> 0]

\* a * 2^bits
ShlN(a, bits) ==
  IF a = <<>> THEN <<>>
  ELSE ZeroLimbs(bits \div 15) \o MulSmall(a, 2 ^ (bits % 15))

\* a \div 2^bits
ShrN(a, bits) ==
  IF bits \div 15 >= Len(a) THEN <<>>
  ELSE DivSmall(SubSeq(a, bits \div 15 + 1, Len(a)), 2 ^ (bits % 15))

RECURSIVE MulN(_, _)
MulN(a, b) ==
  IF a = <<>> \/ b = <<>> THEN <<>>
  ELSE AddN(MulSmall(a, Head(b)), ShlN(MulN(a, Tail(b)), 15))

RECURSIVE BitLenSmall(_)
BitLenSmall(n) == IF n = 0 THEN 0 ELSE 1 + BitLenSmall(n \div 2)

\* The number of binary digits of a
BitLen(a) == IF a = <<>> THEN 0 ELSE 15 * (Len(a) - 1) + BitLenSmall(a[Len(a)])

IsOdd(a) == a # <<>> /\ a[1] % 2 = 1

\* 2 * a + bit
ShiftIn(a, bit) ==
  LET d == MulSmall(a, 2)
  IN  IF bit = 0 THEN d ELSE IF d = <<>> THEN <<1>> ELSE [d EXCEPT ![1] = @ + 1]

RECURSIVE FitDigit(_, _, _)
\* The largest digit d <= guess with d * b <= r
FitDigit(r, b, guess) ==
  IF CmpN(MulSmall(b, guess), r) <= 0 THEN guess ELSE FitDigit(r, b, guess - 1)

RECURSIVE DivLimbs(_, _, _, _, _)
\* Long division by limbs: the limbs of a from limb i down are brought down
\* to the remainder r, the quotient digits are put in front of q.  The top
\* limb of b is at least 2^14, so the guessed digit is at most 2 too large.
DivLimbs(a, b, i, r, q) ==
  IF i = 0 THEN [q |-> Strip(q), r |-> r]
  ELSE LET r2    == Strip(<<a[i]>> \o r)
           n     == Len(b)
           guess == Min((Limb(r2, n + 1) * LimbBase + Limb(r2, n)) \div b[n], LimbBase - 1)
           d     == IF Len(r2) < n THEN 0 ELSE FitDigit(r2, b, guess)
       IN  DivLimbs(a, b, i - 1, SubN(r2, MulSmall(b, d)), <<d>> \o q)

\* Quotient and remainder of a by b > 0
DivModN(a, b) ==
  LET s  == 15 - BitLenSmall(b[Len(b)])
      as == ShlN(a, s)
      qr == DivLimbs(as, ShlN(b, s), Len(as), <<>>, <<>>)
  IN  [q |-> qr.q, r |-> ShrN(qr.r, s)]

\* The float nearest to (-1)^neg * M * 2^E, ties to the even mantissa.
FloatRound(neg, M, E) ==
  IF BitLen(M) <= 53 THEN [neg |-> neg, m |-> M, e |-> E]
  ELSE LET k    == BitLen(M) - 53
           q    == ShrN(M, k)
           c    == CmpN(SubN(M, ShlN(q, k)), ShlN(<<1>>, k - 1))
           up   == c > 0 \/ (c = 0 /\ IsOdd(q))
       IN  [neg |-> neg, m |-> IF up THEN AddN(q, <<1>>) ELSE q, e |-> E + k]

\* float(n) of an integer n
FloatOfInt(n) == [neg |-> n < 0, m |-> NatOf(IF n < 0 THEN -n ELSE n), e |-> 0]

FloatNeg(a) == [a EXCEPT !.neg = ~a.neg]

\* a * b
FloatMul(a, b) == FloatRound(a.neg # b.neg, MulN(a.m, b.m), a.e + b.e)

\* a / b for b # 0
FloatDiv(a, b) ==
  IF a.m = <<>> THEN [neg |-> a.neg # b.neg, m |-> <<>>, e |-> 0]
  ELSE LET k  == Max(0, 53 + 2 + BitLen(b.m) - BitLen(a.m))
           qr == DivModN(ShlN(a.m, k), b.m)
       IN  FloatRound(a.neg # b.neg, ShiftIn(qr.q, IF qr.r = <<>> THEN 0 ELSE 1),
                      a.e - b.e - k - 1)

\* a + b
FloatAdd(a, b) ==
  LET e  == Min(a.e, b.e)
      am == ShlN(a.m, a.e - e)
      bm == ShlN(b.m, b.e - e)
  IN  IF a.neg = b.neg THEN FloatRound(a.neg, AddN(am, bm), e)
      ELSE IF CmpN(am, bm) >= 0 THEN FloatRound(a.neg, SubN(am, bm), e)
      ELSE FloatRound(b.neg, SubN(bm, am), e)

\* a - b
FloatSub(a, b) == FloatAdd(a, FloatNeg(b))

\* The float of a length of mm thousandths of a millimetre: the value of a
\* QDoubleSpinBox with three decimals, or of a literal such as 223.642.
FloatOfMilli(mm) == FloatDiv(FloatOfInt(mm), FloatOfInt(1000))

\* The whole part of |a|, and whether |a| has a fractional part.
WholePart(a) == IF a.e >= 0 THEN ShlN(a.m, a.e) ELSE ShrN(a.m, -a.e)

FractionPart(a) == IF a.e >= 0 THEN <<>> ELSE SubN(a.m, ShlN(ShrN(a.m, -a.e), -a.e))

\* Python int(a): truncation toward zero.
PyInt(a) == IF a.neg THEN -IntOf(WholePart(a)) ELSE IntOf(WholePart(a))

\* Python math.ceil(a)
PyCeil(a) ==
  IF a.neg THEN -IntOf(WholePart(a))
  ELSE IntOf(WholePart(a)) + (IF FractionPart(a) = <<>> THEN 0 ELSE 1)

\* Python round(a): to nearest, ties to the even integer.
PyRound(a) ==
  LET w  == IntOf(WholePart(a))
      c  == IF a.e >= 0 THEN -1 ELSE CmpN(FractionPart(a), ShlN(<<1>>, -a.e - 1))
      v  == IF c > 0 \/ (c = 0 /\ w % 2 = 1) THEN w + 1 ELSE w
  IN  IF a.neg THEN -v ELSE v

\* px_per_mm = disp_pix / disp_mm
PxPerMm(disp_pix, disp_mm) == FloatDiv(FloatOfInt(disp_pix), FloatOfMilli(disp_mm))

\* ------------------------------------------------------------------------
\* Pillow image operations used by the renderers.
\* ------------------------------------------------------------------------
Pixels(w, h) == (0 .. (w - 1)) \X (0 .. (h - 1))

\* An image of up to MaxPixelsHeld pixels is held pixel by pixel, as the
\* record [w, h, px].  The canvas of the display the first-generation tools
\* have built in has 13312 * 5120 pixels: a larger image is held as the
\* record [w, h, ops] of the drawing operations that made it, first to last,
\* and PixelAt computes a pixel of it from them.
MaxPixelsHeld == 4096

Held(w, h) == w * h <= MaxPixelsHeld

IsDrawn(img) == "ops" \in DOMAIN img

\* The operations on an image held as its drawing operations.
OpNew(fill) == [op |-> "new", fill |-> fill]

OpPolygons(boxes) == [op |-> "polygons", boxes |-> boxes]

OpEllipse == [op |-> "ellipse"]

OpInvert == [op |-> "invert"]

OpMirror == [op |-> "mirror"]

OpPaste(img, ox, oy, mask) == [op |-> "paste", img |-> img, ox |-> ox, oy |-> oy, mask |-> mask]

Drawn(img, o) == [w |-> img.w, h |-> img.h, ops |-> Append(img.ops, o)]

\* Image.new("L", (w, h), fill)
ImageNew(w, h, fill) ==
  IF Held(w, h) THEN [w |-> w, h |-> h, px |-> [p \in Pixels(w, h) |-> fill]]
  ELSE [w |-> w, h |-> h, ops |-> <<OpNew(fill)>>]

\* An inversion that leaves the image as it is.
NoInvert(img) == img

\* ImageOps.invert(img)
ImageOps_invert(img) ==
  IF IsDrawn(img) THEN Drawn(img, OpInvert)
  ELSE [img EXCEPT !.px = [p \in DOMAIN img.px |-> 255 - img.px[p]]]

\* A mirror that leaves the image as it is.
NoMirror(img) == img

\* ImageOps.mirror(img): every row reversed.
ImageOps_mirror(img) ==
  IF IsDrawn(img) THEN Drawn(img, OpMirror)
  ELSE [img EXCEPT !.px = [p \in DOMAIN img.px |-> img.px[<<img.w - 1 - p[1], p[2]>>]]]

\* img.crop((left, top, right, bottom)), the box lying inside img.
Crop(img, left, top, right, bottom) ==
  [w |-> right - left, h |-> bottom - top,
   px |-> [p \in Pixels(right - left, bottom - top) |-> img.px[<<left + p[1], top + p[2]>>]]]

\* base.paste(img, (ox, oy)): the part of img that falls on base replaces it.
Paste(base, img, ox, oy) ==
  IF IsDrawn(base) THEN Drawn(base, OpPaste(img, ox, oy, ImageNew(img.w, img.h, 255)))
  ELSE
  [base EXCEPT !.px =
     [p \in DOMAIN base.px |->
        IF /\ p[1] - ox \in 0 .. (img.w - 1)
           /\ p[2] - oy \in 0 .. (img.h - 1)
        THEN img.px[<<p[1] - ox, p[2] - oy>>]
        ELSE base.px[p]]]

\* base.paste(img, (ox, oy), mask) with a mask of 0 / 255: img replaces base
\* where the mask is 255, base shows through where it is 0.
PasteMasked(base, img, ox, oy, mask) ==
  IF IsDrawn(base) THEN Drawn(base, OpPaste(img, ox, oy, mask))
  ELSE
  [base EXCEPT !.px =
     [p \in DOMAIN base.px |->
        IF /\ p[1] - ox \in 0 .. (img.w - 1)
           /\ p[2] - oy \in 0 .. (img.h - 1)
           /\ mask.px[<<p[1] - ox, p[2] - oy>>] = 255
        THEN img.px[<<p[1] - ox, p[2] - oy>>]
        ELSE base.px[p]]]

\* The point p satisfies the inequality of the ellipse of the box
\* [0, w] x [0, h]: (2x - w)^2 * h^2 + (2y - h)^2 * w^2 <= w^2 * h^2, computed
\* on limbs (the products of an inset of the built-in display exceed 2^31).
InEllipse(p, w, h) ==
  LET Sq(n) == MulN(NatOf(n), NatOf(n))
      Abs(n) == IF n < 0 THEN -n ELSE n
  IN  CmpN(Strip(AddN(MulN(Sq(Abs(2 * p[1] - w)), Sq(h)), MulN(Sq(Abs(2 * p[2] - h)), Sq(w)))),
           Strip(MulN(Sq(w), Sq(h)))) <= 0

\* mask = Image.new("L", (w, h), 0); ImageDraw.Draw(mask).ellipse([0, 0, w, h], fill=255):
\* the ellipse of the box [0, w] x [0, h] (centre (w/2, h/2), half axes w/2, h/2),
\* the pixels of column w and row h falling outside the w x h mask.  A pixel is
\* inside when its coordinates satisfy the ellipse inequality; which of the
\* pixels on the very outline Pillow's rasteriser sets is Pillow's choice.
EllipseMask(w, h) ==
  IF Held(w, h)
  THEN [w |-> w, h |-> h, px |-> [p \in Pixels(w, h) |-> IF InEllipse(p, w, h) THEN 255 ELSE 0]]
  ELSE Drawn(ImageNew(w, h, 0), OpEllipse)

InBox(p, box) == box.x0 <= p[1] /\ p[1] <= box.x1 /\ box.y0 <= p[2] /\ p[2] <= box.y1

RECURSIVE PixelAt(_, _)
RECURSIVE DrawnPixel(_, _, _)
\* The pixel p of an image held as its drawing operations, after the first
\* n of them.
DrawnPixel(img, n, p) ==
  LET o == img.ops[n]
      q == <<p[1] - o.ox, p[2] - o.oy>>
  IN  CASE o.op = "new"      -> o.fill
        [] o.op = "polygons" ->
             IF \E box \in o.boxes : InBox(p, box) THEN 255 ELSE DrawnPixel(img, n - 1, p)
        [] o.op = "ellipse"  ->
             IF InEllipse(p, img.w, img.h) THEN 255 ELSE DrawnPixel(img, n - 1, p)
        [] o.op = "invert"   -> 255 - DrawnPixel(img, n - 1, p)
        [] o.op = "mirror"   -> DrawnPixel(img, n - 1, <<img.w - 1 - p[1], p[2]>>)
        [] o.op = "paste"    ->
             IF /\ q[1] \in 0 .. (o.img.w - 1)
                /\ q[2] \in 0 .. (o.img.h - 1)
                /\ PixelAt(o.mask, q) = 255
             THEN PixelAt(o.img, q)
             ELSE DrawnPixel(img, n - 1, p)

\* img.getpixel(p)
PixelAt(img, p) == IF IsDrawn(img) THEN DrawnPixel(img, Len(img.ops), p) ELSE img.px[p]

\* ------------------------------------------------------------------------
\* Image.resize(size, resample=LANCZOS) on an "L" image: Pillow's 8-bit
\* fixed-point convolution (Resample.c), a horizontal pass and then a
\* vertical pass, each rounding to 8 bits.
\* ------------------------------------------------------------------------
\* #define PRECISION_BITS (32 - 8 - 2)
PRECISION_BITS == 32 - 8 - 2

\* clip8: the accumulator shifted right by PRECISION_BITS, clamped to 0..255.
Clip8(ss) == Max(0, Min(255, ss \div (2 ^ PRECISION_BITS)))

\* The filter coefficients of one axis, as precompute_coeffs and
\* normalize_coeffs_8bpc leave them for the Lanczos filter (support 3): for
\* each output index the first input index xmin and the weights k, scaled by
\* 2^PRECISION_BITS and rounded to integers.  They are listed for the size
\* pairs the model's inputs produce.
LanczosCoeffs(inSize, outSize) ==
  CASE inSize = 2 /\ outSize = 4 ->
      <<[xmin |-> 0, k |-> <<4930311, -736007>>],
        [xmin |-> 0, k |-> <<3217574, 976730>>],
        [xmin |-> 0, k |-> <<976730, 3217574>>],
        [xmin |-> 0, k |-> <<-736007, 4930311>>]>>
    [] inSize = 2 /\ outSize = 12 ->
      <<[xmin |-> 0, k |-> <<5268629, -1074325>>],
        [xmin |-> 0, k |-> <<4930311, -736007>>],
        [xmin |-> 0, k |-> <<4469304, -275000>>],
        [xmin |-> 0, k |-> <<3891992, 302312>>],
        [xmin |-> 0, k |-> <<3217574, 976730>>],
        [xmin |-> 0, k |-> <<2478247, 1716057>>],
        [xmin |-> 0, k |-> <<1716057, 2478247>>],
        [xmin |-> 0, k |-> <<976730, 3217574>>],
        [xmin |-> 0, k |-> <<302312, 3891992>>],
        [xmin |-> 0, k |-> <<-275000, 4469304>>],
        [xmin |-> 0, k |-> <<-736007, 4930311>>],
        [xmin |-> 0, k |-> <<-1074325, 5268629>>]>>
    [] inSize = 8 /\ outSize = 4 ->
      <<[xmin |-> 0, k |-> <<1978344, 1978344, 600549, -295331, -150679, 66728, 16350>>],
        [xmin |-> 0, k |-> <<-276302, 561853, 1850872, 1850872, 561853, -276302, -140970, 62428>>],
        [xmin |-> 0, k |-> <<62428, -140970, -276302, 561853, 1850872, 1850872, 561853, -276302>>],
        [xmin |-> 1, k |-> <<16350, 66728, -150679, -295331, 600549, 1978344, 1978344>>]>>
    [] inSize = 8 /\ outSize = 12 ->
      <<[xmin |-> 0, k |-> <<4580609, -505874, 119569>>],
        [xmin |-> 0, k |-> <<2307380, 2307380, -512751, 92295>>],
        [xmin |-> 0, k |-> <<-452020, 4092970, 722241, -183050, 14163>>],
        [xmin |-> 0, k |-> <<-179092, 706628, 4004487, -442248, 104531>>],
        [xmin |-> 0, k |-> <<102578, -569878, 2564452, 2564452, -569878, 102578>>],
        [xmin |-> 1, k |-> <<104187, -440792, 3991301, 704301, -178503, 13811>>],
        [xmin |-> 1, k |-> <<13811, -178503, 704301, 3991301, -440792, 104187>>],
        [xmin |-> 2, k |-> <<102578, -569878, 2564452, 2564452, -569878, 102578>>],
        [xmin |-> 3, k |-> <<104531, -442248, 4004487, 706628, -179092>>],
        [xmin |-> 3, k |-> <<14163, -183050, 722241, 4092970, -452020>>],
        [xmin |-> 4, k |-> <<92295, -512751, 2307380, 2307380>>],
        [xmin |-> 5, k |-> <<119569, -505874, 4580609>>]>>
    [] inSize = 2 /\ outSize = 8 ->
      <<[xmin |-> 0, k |-> <<5195484, -1001180>>],
        [xmin |-> 0, k |-> <<4595914, -401610>>],
        [xmin |-> 0, k |-> <<3731444, 462860>>],
        [xmin |-> 0, k |-> <<2666983, 1527321>>],
        [xmin |-> 0, k |-> <<1527321, 2666983>>],
        [xmin |-> 0, k |-> <<462860, 3731444>>],
        [xmin |-> 0, k |-> <<-401610, 4595914>>],
        [xmin |-> 0, k |-> <<-1001180, 5195484>>]>>
    [] inSize = 12 /\ outSize = 6 ->
      <<[xmin |-> 0, k |-> <<1978344, 1978344, 600549, -295331, -150679, 66728, 16350>>],
        [xmin |-> 0, k |-> <<-275298, 559811, 1844147, 1844147, 559811, -275298, -140458, 62201, 15241>>],
        [xmin |-> 0, k |-> <<63384, -143129, -280532, 570455, 1879209, 1879209, 570455, -280532, -143129, 63384, 15531>>],
        [xmin |-> 1, k |-> <<15531, 63384, -143129, -280532, 570455, 1879209, 1879209, 570455, -280532, -143129, 63384>>],
        [xmin |-> 3, k |-> <<15241, 62201, -140458, -275298, 559811, 1844147, 1844147, 559811, -275298>>],
        [xmin |-> 5, k |-> <<16350, 66728, -150679, -295331, 600549, 1978344, 1978344>>]>>
    [] inSize = 2 /\ outSize = 1 ->
      <<[xmin |-> 0, k |-> <<2097152, 2097152>>]>>
    [] inSize = 12 /\ outSize = 4 ->
      <<[xmin |-> 0, k |-> <<1211247, 1494811, 1211247, 569100, 0, -217978, -139506, 0, 46457, 18926, 0>>],
        [xmin |-> 0, k |-> <<-201981, 0, 527334, 1122354, 1385108, 1122354, 527334, 0, -201981, -129268, 0, 43048>>],
        [xmin |-> 0, k |-> <<43048, 0, -129268, -201981, 0, 527334, 1122354, 1385108, 1122354, 527334, 0, -201981>>],
        [xmin |-> 2, k |-> <<18926, 46457, 0, -139506, -217978, 0, 569100, 1211247, 1494811, 1211247>>]>>
    [] inSize = 18 /\ outSize = 9 ->
      <<[xmin |-> 0, k |-> <<1978344, 1978344, 600549, -295331, -150679, 66728, 16350>>],
        [xmin |-> 0, k |-> <<-275298, 559811, 1844147, 1844147, 559811, -275298, -140458, 62201, 15241>>],
        [xmin |-> 0, k |-> <<63384, -143129, -280532, 570455, 1879209, 1879209, 570455, -280532, -143129, 63384, 15531>>],
        [xmin |-> 1, k |-> <<15473, 63150, -142601, -279497, 568350, 1872276, 1872276, 568350, -279497, -142601, 63150, 15473>>],
        [xmin |-> 3, k |-> <<15473, 63150, -142601, -279497, 568350, 1872276, 1872276, 568350, -279497, -142601, 63150, 15473>>],
        [xmin |-> 5, k |-> <<15473, 63150, -142601, -279497, 568350, 1872276, 1872276, 568350, -279497, -142601, 63150, 15473>>],
        [xmin |-> 7, k |-> <<15531, 63384, -143129, -280532, 570455, 1879209, 1879209, 570455, -280532, -143129, 63384>>],
        [xmin |-> 9, k |-> <<15241, 62201, -140458, -275298, 559811, 1844147, 1844147, 559811, -275298>>],
        [xmin |-> 11, k |-> <<16350, 66728, -150679, -295331, 600549, 1978344, 1978344>>]>>
    [] inSize = 3 /\ outSize = 1 ->
      <<[xmin |-> 0, k |-> <<1296896, 1600512, 1296896>>]>>
    [] inSize = 9 /\ outSize = 4 ->
      <<[xmin |-> 0, k |-> <<1715910, 1883624, 905496, -83930, -267836, -24734, 59256, 6518>>],
        [xmin |-> 0, k |-> <<-256417, 309783, 1382256, 1837373, 1123314, 91354, -271754, -78513, 56909>>],
        [xmin |-> 0, k |-> <<56909, -78513, -271754, 91354, 1123314, 1837373, 1382256, 309783, -256417>>],
        [xmin |-> 1, k |-> <<6518, 59256, -24734, -267836, -83930, 905496, 1883624, 1715910>>]>>
    [] inSize = 14 /\ outSize = 6 ->
      <<[xmin |-> 0, k |-> <<1641511, 1842519, 977996, 0, -277004, -68094, 59186, 18188>>],
        [xmin |-> 0, k |-> <<-248725, 249060, 1242290, 1774606, 1242290, 249060, -248725, -139908, 39850, 34508, 0>>],
        [xmin |-> 0, k |-> <<56010, -64439, -262136, 0, 925503, 1743625, 1553405, 573538, -170159, -216641, 0, 51239, 4359>>],
        [xmin |-> 1, k |-> <<4359, 51239, 0, -216641, -170159, 573538, 1553405, 1743625, 925503, 0, -262136, -64439, 56010>>],
        [xmin |-> 4, k |-> <<34508, 39850, -139908, -248725, 249060, 1242290, 1774606, 1242290, 249060, -248725>>],
        [xmin |-> 6, k |-> <<18188, 59186, -68094, -277004, 0, 977996, 1842519, 1641511>>]>>
    [] inSize = 8 /\ outSize = 16 ->
      <<[xmin |-> 0, k |-> <<4742290, -707939, 159953>>],
        [xmin |-> 0, k |-> <<3394380, 1030402, -258531, 28053>>],
        [xmin |-> 0, k |-> <<1071733, 3530535, -527045, 119081>>],
        [xmin |-> 0, k |-> <<-576350, 3860810, 1171992, -294056, 31908>>],
        [xmin |-> 0, k |-> <<-287321, 1145150, 3772386, -563149, 127239>>],
        [xmin |-> 0, k |-> <<126300, -558994, 3744552, 1136701, -285201, 30947>>],
        [xmin |-> 0, k |-> <<30947, -285201, 1136701, 3744552, -558994, 126300>>],
        [xmin |-> 1, k |-> <<126300, -558994, 3744552, 1136701, -285201, 30947>>],
        [xmin |-> 1, k |-> <<30947, -285201, 1136701, 3744552, -558994, 126300>>],
        [xmin |-> 2, k |-> <<126300, -558994, 3744552, 1136701, -285201, 30947>>],
        [xmin |-> 2, k |-> <<30947, -285201, 1136701, 3744552, -558994, 126300>>],
        [xmin |-> 3, k |-> <<127239, -563149, 3772386, 1145150, -287321>>],
        [xmin |-> 3, k |-> <<31908, -294056, 1171992, 3860810, -576350>>],
        [xmin |-> 4, k |-> <<119081, -527045, 3530535, 1071733>>],
        [xmin |-> 4, k |-> <<28053, -258531, 1030402, 3394380>>],
        [xmin |-> 5, k |-> <<159953, -707939, 4742290>>]>>
RECURSIVE Convolve(_, _, _)
\* The sum of line[first + i - 1] * k[i] over the weights k (line is a
\* function of the input index).
Convolve(line, first, k) ==
  IF k = <<>> THEN 0
  ELSE line[first] * Head(k) + Convolve(line, first + 1, Tail(k))

\* ImagingResampleHorizontal_8bpc
ResampleHorizontal(img, xsize) ==
  [w |-> xsize, h |-> img.h,
   px |-> [p \in Pixels(xsize, img.h) |->
             LET c == LanczosCoeffs(img.w, xsize)[p[1] + 1]
             IN  Clip8(2 ^ (PRECISION_BITS - 1)
                       + Convolve([x \in 0 .. (img.w - 1) |-> img.px[<<x, p[2]>>]], c.xmin, c.k))]]

\* ImagingResampleVertical_8bpc
ResampleVertical(img, ysize) ==
  [w |-> img.w, h |-> ysize,
   px |-> [p \in Pixels(img.w, ysize) |->
             LET c == LanczosCoeffs(img.h, ysize)[p[2] + 1]
             IN  Clip8(2 ^ (PRECISION_BITS - 1)
                       + Convolve([y \in 0 .. (img.h - 1) |-> img.px[<<p[1], y>>]], c.xmin, c.k))]]

\* img.resize((xsize, ysize), Image.LANCZOS) for xsize, ysize >= 1: a pass is
\* made only along an axis whose size changes.
Resize(img, xsize, ysize) ==
  LET horiz == IF xsize # img.w THEN ResampleHorizontal(img, xsize) ELSE img
  IN  IF ysize # img.h THEN ResampleVertical(horiz, ysize) ELSE horiz

\* ------------------------------------------------------------------------
\* The bitmap renderer (_bmp_render_to_photomask, render_bitmap_to_photomask).
\* ------------------------------------------------------------------------
\* The circle diameter and the circle offset, in thousandths of a millimetre.
CIRCLE_DIAM_MM_BMP == 100000

CIRCLE_OFFSET_MM_BMP == 60000

CIRCLE_DIAM_MM_GDS == 100000

CIRCLE_OFFSET_MM_GDS == 60000

\* A strict comparison in the point operation.
PointThresholdStrict(v, thr) == IF v > thr THEN 255 ELSE 0

\* content_img.point(lambda x: 255 if x >= thr else 0): one pixel.
PointThreshold(v, thr) == IF v >= thr THEN 255 ELSE 0

\* content_img.point(lambda x: 255 if x >= thr else 0, mode='L'): the image.
Threshold(img, thr) == [img EXCEPT !.px = [p \in DOMAIN img.px |-> PointThreshold(img.px[p], thr)]]

\* KreisProjektorGUI.place_in_circle: the crop box ((width - min_side) // 2,
\* (height - min_side) // 2, (width + min_side) // 2, (height + min_side) // 2).
CropBoxLegacy(w, h) ==
  LET min_side == Min(w, h)
  IN  <<(w - min_side) \div 2, (h - min_side) \div 2,
        (w + min_side) \div 2, (h + min_side) \div 2>>

\* A crop box taken from the top left corner of the content image.
CropBoxCorner(w, h) ==
  LET min_side == Min(w, h)
  IN  <<0, 0, min_side, min_side>>

\* _bmp_place_in_circle: min_side, left, top and the crop box (left, top,
\* left + min_side, top + min_side).
CropBox(w, h) ==
  LET min_side == Min(w, h)
      left     == (w - min_side) \div 2
      top      == (h - min_side) \div 2
  IN  <<left, top, left + min_side, top + min_side>>

\* The centred square crop: content_img.crop(box).
CropSquare(img) ==
  LET box == CropBox(img.w, img.h)
  IN  Crop(img, box[1], box[2], box[3], box[4])

\* int((circle_diam_mm / 2.0) * (disp_pix / disp_mm))
RadiusPx(circle_diam_mm, disp_pix, disp_mm) ==
  PyInt(FloatMul(FloatDiv(FloatOfMilli(circle_diam_mm), FloatOfInt(2)),
                 PxPerMm(disp_pix, disp_mm)))

\* int(circle_offset_mm * px_per_mm_x)
LeftCenterX(circle_offset_mm, disp_pix_w, disp_mm_w) ==
  PyInt(FloatMul(FloatOfMilli(circle_offset_mm), PxPerMm(disp_pix_w, disp_mm_w)))

\* int((disp_mm_w - circle_offset_mm) * px_per_mm_x)
RightCenterX(circle_offset_mm, disp_pix_w, disp_mm_w) ==
  PyInt(FloatMul(FloatSub(FloatOfMilli(disp_mm_w), FloatOfMilli(circle_offset_mm)),
                 PxPerMm(disp_pix_w, disp_mm_w)))

\* The insets centred on the bottom edge of the canvas.
CenterYBottom(disp_pix_h) == disp_pix_h

\* center_y = disp_pix_h // 2
CenterY(disp_pix_h) == disp_pix_h \div 2

\* The content as _bmp_place_in_circle pastes it: threshold, optional
\* inversion, centred square crop, Lanczos resize to the inset size.
BmpScaled(content_img, radius_px_x, radius_px_y, threshold, invert) ==
  LET bw  == Threshold(content_img, threshold)
      inv == IF invert THEN ImageOps_invert(bw) ELSE bw
  IN  Resize(CropSquare(inv), 2 * radius_px_x, 2 * radius_px_y)

\* _bmp_place_in_circle, the resize succeeding (both radii >= 1).
BmpPlaceInCircle(base_img, content_img, cx, cy, radius_px_x, radius_px_y, threshold, invert) ==
  PasteMasked(base_img,
              BmpScaled(content_img, radius_px_x, radius_px_y, threshold, invert),
              cx - radius_px_x, cy - radius_px_y,
              EllipseMask(2 * radius_px_x, 2 * radius_px_y))

\* ------------------------------------------------------------------------
\* Inputs of the render calls.
\* ------------------------------------------------------------------------
\* DisplayModel's defaults (DEFAULT_PIX_W, DEFAULT_PIX_H, DEFAULT_MM_W,
\* DEFAULT_MM_H), the display the first-generation tools have built in.
DisplayDefault == [pix_w |-> 13312, pix_h |-> 5120, mm_w |-> 223642, mm_h |-> 126480]

\* The displays of the calls of the renderers, which take the display as
\* arguments: pixel counts and physical size.  The renderers build every
\* pixel of the canvas, so the canvases here have few pixels.  The first has the default physical size on 28 x 6 pixels, with
\* the insets side by side; in the second the display is narrower than
\* twice (offset + radius) and the insets overlap; the third is lower than
\* the circle diameter, the insets are cut at the top and bottom; the
\* fourth has the width 0 mm (a display setting that was never validated);
\* the fifth has so few pixels that the radii are 0.
DisplayCoarse == [pix_w |-> 28, pix_h |-> 6, mm_w |-> 223642, mm_h |-> 126480]

DisplayNarrow == [pix_w |-> 20, pix_h |-> 6, mm_w |-> 160000, mm_h |-> 126480]

DisplayLow == [pix_w |-> 28, pix_h |-> 4, mm_w |-> 223642, mm_h |-> 50000]

DisplayZeroWidth == [pix_w |-> 28, pix_h |-> 6, mm_w |-> 0, mm_h |-> 126480]

DisplayTiny == [pix_w |-> 2, pix_h |-> 2, mm_w |-> 223642, mm_h |-> 126480]

Displays == {DisplayCoarse, DisplayNarrow, DisplayLow, DisplayZeroWidth, DisplayTiny}

NoImage == ImageNew(0, 0, 0)

\* The image files: a solid white square, an image of dark and light columns,
\* a 3 x 2 image of greys, and a path that cannot be opened.
BmpFile(path) ==
  CASE path = "white.png"   -> ImageNew(2, 2, 255)
    [] path = "stripes.png" ->
         [w |-> 8, h |-> 8, px |-> [p \in Pixels(8, 8) |-> IF p[1] >= 5 THEN 200 ELSE 10]]
    [] path = "greys.png"   ->
         [w |-> 3, h |-> 2, px |-> [p \in Pixels(3, 2) |-> 40 * p[1] + 100 * p[2] + 20]]
    [] OTHER                -> NoImage

BmpPaths == {"white.png", "stripes.png", "greys.png", "missing.png"}

Readable(path) == path \in {"white.png", "stripes.png", "greys.png"}

\* Thresholds of the calls (the spin box allows 0..254).
Thresholds == {0, 1, 128, 254}

\* ------------------------------------------------------------------------
\* The GDS renderer (_gds_render_to_photomask, render_gds_to_photomask,
\* GDSKreisProjektorGUI.verarbeiten).
\* ------------------------------------------------------------------------
Rect(layer, datatype, x0, y0, x1, y1) ==
  [layer |-> layer, datatype |-> datatype,
   pts |-> << <<x0, y0>>, <<x1, y0>>, <<x1, y1>>, <<x0, y1>> >>]

\* The cells of the GDS file (coordinates in micrometres; the polygons are
\* axis-parallel rectangles, the cells hold no references): TOP has polygons
\* on layer 1, 2 and 3 with datatype 0 and on layer 4 with datatype 1 only,
\* BLANK has none.  The polygon of layer 3 has a corner at the centre of the
\* cell's bounding box and lies up and to the right of it.
GdsFileCells ==
  [name \in {"TOP", "BLANK"} |->
     IF name = "TOP"
     THEN { Rect(1, 0, -40000, -30000, -8000, 35000),
            Rect(1, 0, 10000, -5000, 42000, 20000),
            Rect(2, 0, -45000, -42000, 47000, 44000),
            Rect(3, 0, 1000, 1000, 40000, 40000),
            Rect(4, 1, 0, 0, 20000, 20000) }
     ELSE {}]

GdsCellNames == {"TOP", "BLANK", "NOPE"}

GdsLayers == {1, 3, 4}

\* flat_cell.get_polygons(by_spec=True).get((layer, 0), [])
PolygonsOn(cell, layer) == {p \in cell : p.layer = layer /\ p.datatype = 0}

SetMin(S) == CHOOSE m \in S : \A n \in S : m <= n

SetMax(S) == CHOOSE m \in S : \A n \in S : m >= n

PointsOf(cell) == UNION {{p.pts[i] : i \in DOMAIN p.pts} : p \in cell}

\* flat_cell.get_bounding_box(): None for a cell without polygons.
HasBoundingBox(cell) == cell # {}

BoundingBox(cell) ==
  LET xs == {pt[1] : pt \in PointsOf(cell)}
      ys == {pt[2] : pt \in PointsOf(cell)}
  IN  [x0 |-> SetMin(xs), y0 |-> SetMin(ys), x1 |-> SetMax(xs), y1 |-> SetMax(ys)]

\* cx_um = (bbox[0][0] + bbox[1][0]) / 2.0, cy_um likewise
CenterUm(lo, hi) == FloatDiv(FloatOfInt(lo + hi), FloatOfInt(2))

\* scale_um_to_px = px_per_mm / 1000.0
ScaleUmToPx(disp_pix, disp_mm) == FloatDiv(PxPerMm(disp_pix, disp_mm), FloatOfInt(1000))

\* xs = (x - cx_um) * scale_um_to_px_x + radius_px_x with cx_um the centre of
\* the bounding box, as ImageDraw takes it: truncated to an integer.
VertexX(x, bbox, disp, rx) ==
  PyInt(FloatAdd(FloatMul(FloatSub(FloatOfInt(x), CenterUm(bbox.x0, bbox.x1)),
                          ScaleUmToPx(disp.pix_w, disp.mm_w)),
                 FloatOfInt(rx)))

\* A row that grows with y: ys = (y - cy_um) * scale_um_to_px_y + radius_px_y.
VertexYUp(y, bbox, disp, ry) ==
  PyInt(FloatAdd(FloatMul(FloatSub(FloatOfInt(y), CenterUm(bbox.y0, bbox.y1)),
                          ScaleUmToPx(disp.pix_h, disp.mm_h)),
                 FloatOfInt(ry)))

\* ys = (cy_um - y) * scale_um_to_px_y + radius_px_y, truncated.
VertexY(y, bbox, disp, ry) ==
  PyInt(FloatAdd(FloatMul(FloatSub(CenterUm(bbox.y0, bbox.y1), FloatOfInt(y)),
                          ScaleUmToPx(disp.pix_h, disp.mm_h)),
                 FloatOfInt(ry)))

\* The columns and rows of the vertices of a polygon as draw.polygon gets
\* them.
PolygonXs(poly, bbox, disp, rx) ==
  {VertexX(x, bbox, disp, rx) : x \in {poly.pts[i][1] : i \in DOMAIN poly.pts}}

PolygonYs(poly, bbox, disp, ry) ==
  {VertexY(y, bbox, disp, ry) : y \in {poly.pts[i][2] : i \in DOMAIN poly.pts}}

\* draw.polygon(pts, fill=255) for a rectangle: the pixels between its
\* corners, corners included.
PolygonBox(poly, bbox, disp, rx, ry) ==
  LET xs == PolygonXs(poly, bbox, disp, rx)
      ys == PolygonYs(poly, bbox, disp, ry)
  IN  [x0 |-> SetMin(xs), x1 |-> SetMax(xs), y0 |-> SetMin(ys), y1 |-> SetMax(ys)]

InPolygon(p, poly, bbox, disp, rx, ry) == InBox(p, PolygonBox(poly, bbox, disp, rx, ry))

\* gds_img: the polygons of the layer drawn white on a black image of the
\* inset size.
GdsRaster(polys, bbox, disp, rx, ry) ==
  LET boxes == {PolygonBox(poly, bbox, disp, rx, ry) : poly \in polys}
  IN  IF Held(2 * rx, 2 * ry)
      THEN [w |-> 2 * rx, h |-> 2 * ry,
            px |-> [p \in Pixels(2 * rx, 2 * ry) |->
                      IF \E box \in boxes : InBox(p, box) THEN 255 ELSE 0]]
      ELSE Drawn(ImageNew(2 * rx, 2 * ry, 0), OpPolygons(boxes))

\* _gds_paste_circle: cx = int(offset_mm * px_mm_x) on the left; on the
\* right disp_mm_w = base.width / px_mm_x and cx = int((disp_mm_w -
\* offset_mm) * px_mm_x), with px_mm_x = disp_pix_w / disp_mm_w.
GdsCenterX(pos, offset_mm, base_width, disp_pix_w, disp_mm_w) ==
  LET px_mm_x == PxPerMm(disp_pix_w, disp_mm_w)
  IN  IF pos = "left"
      THEN PyInt(FloatMul(FloatOfMilli(offset_mm), px_mm_x))
      ELSE PyInt(FloatMul(FloatSub(FloatDiv(FloatOfInt(base_width), px_mm_x),
                                   FloatOfMilli(offset_mm)),
                          px_mm_x))

\* _gds_paste_circle / paste_circle
GdsPasteCircle(base_img, img, rx, ry, cx, cy, invert) ==
  LET im == IF invert THEN ImageOps_invert(img) ELSE img
  IN  PasteMasked(base_img, im, cx - rx, cy - ry, EllipseMask(im.w, im.h))

\* A check that never finds the layer empty.
NeverEmpty(polys) == FALSE

\* if not polys: the layer has no geometry.
NoGeometry(polys) == polys = {}

\* temp_name = f"__temp_flat__{uuid.uuid4().hex}" in the renderers, the fixed
\* name "__temp_flat__" in GDSKreisProjektorGUI.verarbeiten.
TempName(tool) == IF tool = "gds_gui" THEN "__temp_flat__" ELSE "__temp_flat__4f1c"

\* if temp_name in lib.cells: del lib.cells[temp_name]
DeleteTemp(cells, name) == cells \ {name}

\* ------------------------------------------------------------------------
\* The Gerber renderer (_gerber_render_bw_with_origin, _gerber_build_canvas).
\* ------------------------------------------------------------------------
\* Gerber displays: 1 px/mm both ways; 1.5 px/mm across and 1 px/mm down;
\* 1 px/mm across and 4 px/mm down; a display of width 0 mm.
GerberDisplaySquare == [pix_w |-> 12, pix_h |-> 8, mm_w |-> 12000, mm_h |-> 8000]

GerberDisplayWide == [pix_w |-> 12, pix_h |-> 8, mm_w |-> 8000, mm_h |-> 8000]

GerberDisplayTall == [pix_w |-> 8, pix_h |-> 16, mm_w |-> 8000, mm_h |-> 4000]

GerberDisplays == {GerberDisplaySquare, GerberDisplayWide, GerberDisplayTall, DisplayZeroWidth}

\* What pygerber reports of a Gerber file (info.min_x_mm, info.max_y_mm,
\* info.width_mm, info.height_mm, in thousandths of a millimetre); a path
\* that does not parse has no entry.
GerberInfo ==
  [path \in {"pads.gbr", "strip.gbr", "board.gbr", "edge.gbr"} |->
     CASE path = "pads.gbr" ->
            [min_x_mm |-> 2000, max_y_mm |-> -1000, w_mm |-> 4000, h_mm |-> 4000]
       [] path = "strip.gbr" ->
            [min_x_mm |-> -1000, max_y_mm |-> 500, w_mm |-> 6000, h_mm |-> 1000]
       [] path = "board.gbr" ->
            [min_x_mm |-> 0, max_y_mm |-> 0, w_mm |-> 4000, h_mm |-> 4000]
       [] path = "edge.gbr" ->
            [min_x_mm |-> 0, max_y_mm |-> 0, w_mm |-> 4500, h_mm |-> 4000]]

GerberPaths == {"pads.gbr", "strip.gbr", "board.gbr", "edge.gbr", "broken.gbr"}

\* dpmm = int(px_per_mm_x * 2)
Dpmm(disp) == PyInt(FloatMul(PxPerMm(disp.pix_w, disp.mm_w), FloatOfInt(2)))

\* parsed.render_raster(...) and Image.open(buf).convert("L"): pygerber's
\* black and white raster of the layer at dpmm dots per millimetre, here a
\* pattern of white squares on black.
GerberRaster(path, dpmm) ==
  LET info == GerberInfo[path]
      w    == CeilDiv(info.w_mm * dpmm, 1000)
      h    == CeilDiv(info.h_mm * dpmm, 1000)
  IN  [w |-> w, h |-> h,
       px |-> [p \in Pixels(w, h) |-> IF ((p[1] \div 2) + (p[2] \div 2)) % 2 = 0 THEN 255 ELSE 0]]

\* (int(px_per_mm_x * float(w_mm)), int(px_per_mm_y * float(h_mm)))
ResizeW(disp, w_mm) == PyInt(FloatMul(PxPerMm(disp.pix_w, disp.mm_w), FloatOfMilli(w_mm)))

ResizeH(disp, h_mm) == PyInt(FloatMul(PxPerMm(disp.pix_h, disp.mm_h), FloatOfMilli(h_mm)))

\* draw_w = math.ceil(pcb_w_mm * px_per_mm_x), draw_h likewise
DrawW(disp, pcb_w_mm) == PyCeil(FloatMul(FloatOfMilli(pcb_w_mm), PxPerMm(disp.pix_w, disp.mm_w)))

DrawH(disp, pcb_h_mm) == PyCeil(FloatMul(FloatOfMilli(pcb_h_mm), PxPerMm(disp.pix_h, disp.mm_h)))

\* offset_x = round(float(min_x_mm) * px_per_mm_x)
OffsetX(disp, min_x_mm) ==
  PyRound(FloatMul(FloatOfMilli(min_x_mm), PxPerMm(disp.pix_w, disp.mm_w)))

\* An offset anchored without negating max_y.
OffsetYUp(disp, max_y_mm) ==
  PyRound(FloatMul(FloatOfMilli(max_y_mm), PxPerMm(disp.pix_h, disp.mm_h)))

\* offset_y = round(-(float(max_y_mm)) * px_per_mm_y)
OffsetY(disp, max_y_mm) ==
  PyRound(FloatMul(FloatNeg(FloatOfMilli(max_y_mm)), PxPerMm(disp.pix_h, disp.mm_h)))

\* canvas_pcb = Image.new("L", (draw_w, draw_h), 255) and
\* canvas_pcb.paste(img, (offset_x, offset_y)): the white sub-canvas with the
\* resized layer img pasted at its offset.
PcbPaste(img, info, disp, pcb_w_mm, pcb_h_mm) ==
  Paste(ImageNew(DrawW(disp, pcb_w_mm), DrawH(disp, pcb_h_mm), 255), img,
        OffsetX(disp, info.min_x_mm), OffsetY(disp, info.max_y_mm))

\* A compositor that mirrors the sub-canvas whether or not the option is set.
MirrorAlways(canvas_pcb, invert, mirror) ==
  IF invert THEN ImageOps_invert(ImageOps_mirror(canvas_pcb)) ELSE ImageOps_mirror(canvas_pcb)

\* if mirror: ImageOps.mirror(canvas_pcb); if invert: ImageOps.invert(canvas_pcb)
MirrorInvert(canvas_pcb, invert, mirror) ==
  LET mirrored == IF mirror THEN ImageOps_mirror(canvas_pcb) ELSE canvas_pcb
  IN  IF invert THEN ImageOps_invert(mirrored) ELSE mirrored

\* The sub-canvas returned in place of the display canvas.
ReturnCanvasPcb(canvas_pcb, disp_pix_w, disp_pix_h) == canvas_pcb

\* The sub-canvas pasted in the top left corner of the display canvas.
TopLeftOnDisplay(canvas_pcb, disp_pix_w, disp_pix_h) ==
  Paste(ImageNew(disp_pix_w, disp_pix_h, 0), canvas_pcb, 0, 0)

\* canvas: the black display canvas with canvas_pcb pasted in its centre.
CenterOnDisplay(canvas_pcb, disp_pix_w, disp_pix_h) ==
  Paste(ImageNew(disp_pix_w, disp_pix_h, 0), canvas_pcb,
        (disp_pix_w - canvas_pcb.w) \div 2, (disp_pix_h - canvas_pcb.h) \div 2)

VARIABLES
  \* A render call.
  call,            \* the arguments of the render call
  pc,              \* where the call stands
  base,            \* the canvas under construction
  pre_mirror,      \* the canvas as it stood when the final mirror was applied
  returned,        \* the image the call returned
  error,           \* the exception the call raised, or the error it reported
  gds_img,         \* the rasterised GDS layer
  img0,            \* the rendered Gerber layer
  lib_cells,       \* the names in the cell table of the loaded library
  current_library, \* the names in the cell table of gdspy.current_library
  saved,           \* the image written to the output file
  locals,          \* radius_px_x, radius_px_y, left_center_x, right_center_x, center_y
  \* The threshold applied to one pixel.
  thr,             \* the threshold and the pixel value
  outs,            \* the results of applying the threshold once, twice, ...
  \* A tool window (tab) and its worker threads.
  tool,            \* the class of the window
  path_ok,         \* the text of the path field names a file
  path_empty,      \* the path field has no text
  png_edit,        \* png_edit, the field of the output path, has text
  combo_cell,      \* GDSTab: combo_cell.count() > 0
  combo_layer,     \* GDSTab: combo_layer.count() > 0
  HAVE_PYGERBER,   \* the import of pygerber succeeded
  dialog,          \* the file dialog that is open: of save_png, browse, browse_png, or none
  image_path_ok,   \* self.image_path of BitmapTab names a file
  prepare_thread,  \* self._prepare_thread: 0 for None, else the number of the render
  prepare_worker,  \* self._prepare_worker: 0 for None, else the number of the render
  thread,          \* the state of the QThread of each render
  worker,          \* the state of the worker object of each render
  canvas,          \* the state of the canvas each render builds
  queue,           \* the slot calls queued for the main thread, oldest first
  direct,          \* the slot emit is calling in the worker's thread, per render
  nested,          \* the calls of MainGUI.prepare_output that are in processEvents()
  timer,           \* the live preview timer is active
  cursor,          \* the number of override cursors on the application's stack
  controls,        \* the input controls and the Prepare button are enabled
  save_btn,        \* the Save button is enabled
  image,           \* self.image: 0 for None, else the render whose canvas it is
  files,           \* the output files written
  started,         \* the number of renders started
  spin_threshold,  \* the value of the threshold spin box
  worker_thr,      \* the threshold of each worker whose result is outstanding
  image_thr,       \* the threshold self.image was computed with
  preview_thr,     \* the threshold the preview shown was computed with
  last_thr,        \* the threshold handed to the latest render
  \* The display geometry of an application, its fields and its settings.
  app,             \* the class of the main window
  win,             \* the main window is being constructed, open or closed
  disp_model,      \* DISPLAY_MODEL (the globals DISPLAY_* of a stand-alone tool)
  fields,          \* the values of the four display spin boxes of each tab
  settings,        \* the display/* keys of the QSettings store
  prep,            \* what the latest Prepare request did
  used,            \* the display geometry handed to the worker it started
  \* Repeated GDS renders and the temporary cells they create.
  t_tool,          \* the renderer ("gds") or GDSKreisProjektorGUI ("gds_gui")
  t_release,       \* where Cell.copy of the installed gdspy enters the new cell
  t_file,          \* the cells of the GDS file each library object was loaded from
  t_lib,           \* the cell table of each library object: cell name -> creator
  t_self,          \* the library object self.library of the window refers to (0: None)
  t_libof,         \* the library object of each render call (0: none yet)
  t_cur,           \* the cell table of gdspy.current_library: cell name -> creator
  t_name,          \* the temporary name of each render call
  t_pc,            \* where each render call stands
  t_started,       \* the number of render calls started
  \* The square crop of a content image, in both generations of the tool.
  content_size,    \* the width and height of the content image
  box_legacy,      \* the crop box KreisProjektorGUI.place_in_circle computed
  box_refactored   \* the crop box _bmp_place_in_circle computed

renderVars ==
  <<call, pc, base, pre_mirror, returned, error, gds_img, img0, lib_cells, current_library,
    saved, locals>>

thrVars == <<thr, outs>>

guiVars ==
  <<tool, HAVE_PYGERBER, combo_cell, combo_layer, path_empty, png_edit, dialog, path_ok,
    image_path_ok, prepare_thread, prepare_worker, thread, worker, canvas, queue,
    direct, nested, timer, cursor, controls, save_btn, image, files, started, spin_threshold,
    worker_thr, image_thr, preview_thr, last_thr>>

dispVars == <<app, win, disp_model, fields, settings, prep, used>>

tempVars == <<t_tool, t_release, t_file, t_lib, t_self, t_libof, t_cur, t_name, t_pc, t_started>>

cropVars == <<content_size, box_legacy, box_refactored>>

vars == <<renderVars, thrVars, guiVars, dispVars, tempVars, cropVars>>

\* ------------------------------------------------------------------------
\* The state of the parts a specification does not move.
\* ------------------------------------------------------------------------
MaxRenders == 3

Renders == 1 .. MaxRenders

\* The local variables of a render call before they are assigned.
NoLocals ==
  [radius_px_x |-> 0, radius_px_y |-> 0, left_center_x |-> 0, right_center_x |-> 0,
   center_y |-> 0]

NoRenderCall ==
  /\ locals = NoLocals
  /\ call = [tool |-> "none"]
  /\ pc = "start"
  /\ base = NoImage
  /\ pre_mirror = NoImage
  /\ returned = NoImage
  /\ error = "none"
  /\ gds_img = NoImage
  /\ img0 = NoImage
  /\ lib_cells = DOMAIN GdsFileCells
  /\ current_library = {}
  /\ saved = NoImage

NoThreshold ==
  /\ thr = [t |-> 0, v |-> 0]
  /\ outs = <<>>

\* No slot is being called in the worker's thread.
NoDirectCall == [rest |-> <<>>, at |-> "none"]

NoWindow ==
  /\ tool = "none"
  /\ HAVE_PYGERBER = TRUE
  /\ combo_cell = FALSE
  /\ combo_layer = FALSE
  /\ path_empty = TRUE
  /\ png_edit = FALSE
  /\ dialog = "none"
  /\ path_ok = FALSE
  /\ image_path_ok = FALSE
  /\ direct = [n \in Renders |-> NoDirectCall]
  /\ nested = 0
  /\ prepare_thread = 0
  /\ prepare_worker = 0
  /\ thread = [n \in Renders |-> "none"]
  /\ worker = [n \in Renders |-> "none"]
  /\ canvas = [n \in Renders |-> "none"]
  /\ queue = <<>>
  /\ timer = FALSE
  /\ cursor = 0
  /\ controls = TRUE
  /\ save_btn = FALSE
  /\ image = 0
  /\ files = {}
  /\ started = 0
  /\ spin_threshold = 128
  /\ worker_thr = [n \in Renders |-> -1]
  /\ image_thr = -1
  /\ preview_thr = -1
  /\ last_thr = -1

\* No main window: the display geometry of the module, nothing stored.
NoDisplay ==
  /\ app = "none"
  /\ win = "closed"
  /\ disp_model = [pix_w |-> 0, pix_h |-> 0, mm_w |-> 0, mm_h |-> 0]
  /\ fields = <<>>
  /\ settings = <<>>
  /\ prep = "none"
  /\ used = [pix_w |-> 0, pix_h |-> 0, mm_w |-> 0, mm_h |-> 0]

\* No crop box computed.
NoBox == <<>>

\* No content image was cropped.
NoCrop ==
  /\ content_size = [w |-> 0, h |-> 0]
  /\ box_legacy = NoBox
  /\ box_refactored = NoBox

\* No GDS render call was made.
NoTempCells ==
  /\ t_tool = "none"
  /\ t_release = "none"
  /\ t_file = <<>>
  /\ t_lib = <<>>
  /\ t_self = 0
  /\ t_libof = <<>>
  /\ t_cur = <<>>
  /\ t_name = <<>>
  /\ t_pc = <<>>
  /\ t_started = 0

\* ------------------------------------------------------------------------
\* The render calls.
\* ------------------------------------------------------------------------
\* What Cell.copy(name=...) does with the new cell depends on the gdspy
\* release: Cell(name) enters it in the table of the global
\* gdspy.current_library (up to 1.5), or in no table (from 1.6).  No release
\* enters it in the GdsLibrary the cell was read from.
CopyRegisters == {"current_library", "none"}

\* The GDS files: "chip.gds" with the cells of GdsFileCells, "flat.gds" with
\* these and a cell of its own that is named "__temp_flat__", "empty.gds"
\* without cells.
GdsPaths == {"chip.gds", "flat.gds", "empty.gds"}

\* The names in lib.cells after gdspy.GdsLibrary(infile=path).
CellNamesOf(path) ==
  CASE path = "empty.gds" -> {}
    [] path = "flat.gds"  -> DOMAIN GdsFileCells \cup {"__temp_flat__"}
    [] OTHER              -> DOMAIN GdsFileCells

BmpCalls ==
  [tool : {"bmp"}, disp : Displays, input_path : BmpPaths, threshold : Thresholds,
   cell_name : {"-"}, layer : {0}, registers : {"none"},
   invert : {FALSE}, mirror : {FALSE}, pcb_mm : {<<0, 0>>}]

GdsCalls ==
  [tool : {"gds"}, disp : Displays \ {DisplayTiny}, input_path : GdsPaths \ {"empty.gds"},
   threshold : {0}, cell_name : GdsCellNames, layer : GdsLayers, registers : CopyRegisters,
   invert : {FALSE}, mirror : {FALSE}, pcb_mm : {<<0, 0>>}]

\* GDSKreisProjektorGUI has the display built in (W_px, H_px = 13312, 5120
\* and 223.642 mm by 126.48 mm, the default display), and its combo boxes
\* offer the cells of the file gds_laden read; after a file without cells
\* the cell combo box is empty and its currentText() is "".
GdsGuiCalls ==
  {c \in [tool : {"gds_gui"}, disp : {DisplayDefault}, input_path : GdsPaths, threshold : {0},
          cell_name : DOMAIN GdsFileCells \cup {""}, layer : GdsLayers,
          registers : CopyRegisters, invert : {FALSE}, mirror : {FALSE},
          pcb_mm : {<<0, 0>>}] :
     (c.cell_name = "") = (c.input_path = "empty.gds")}

\* PCB sizes (width, height): inside the display, larger than the display,
\* one whose pixel size is not whole, and the sizes of the layers of
\* "board.gbr" and "edge.gbr".
PcbSizes == {<<8000, 6000>>, <<16000, 10000>>, <<7500, 5250>>, <<4000, 4000>>, <<4500, 4000>>}

GerberCalls ==
  [tool : {"gerber"}, disp : GerberDisplays, input_path : GerberPaths, threshold : {0},
   cell_name : {"-"}, layer : {0}, registers : {"none"},
   invert : BOOLEAN, mirror : BOOLEAN, pcb_mm : PcbSizes]

\* The cell table of the library the call works on: lib (self.library) =
\* gdspy.GdsLibrary(infile=...) of the file.
LoadedCells(c) == CellNamesOf(c.input_path)

InitRender ==
  /\ call \in BmpCalls \cup GdsCalls \cup GdsGuiCalls \cup GerberCalls
  /\ pc = "start"
  /\ base = NoImage
  /\ pre_mirror = NoImage
  /\ returned = NoImage
  /\ error = "none"
  /\ gds_img = NoImage
  /\ img0 = NoImage
  /\ lib_cells = LoadedCells(call)
  /\ current_library = {}
  /\ saved = NoImage
  /\ locals = NoLocals
  /\ NoThreshold
  /\ NoWindow
  /\ NoDisplay
  /\ NoTempCells
  /\ NoCrop

\* The call ends with the exception (or the error message) e.
Fail(e) ==
  /\ pc' = "failed"
  /\ error' = e
  /\ UNCHANGED <<call, base, pre_mirror, returned, gds_img, img0, saved>>

circle_diam_mm == IF call.tool = "bmp" THEN CIRCLE_DIAM_MM_BMP ELSE CIRCLE_DIAM_MM_GDS

circle_offset_mm == IF call.tool = "bmp" THEN CIRCLE_OFFSET_MM_BMP ELSE CIRCLE_OFFSET_MM_GDS

\* The local variables of the render call.
radius_px_x == locals.radius_px_x

radius_px_y == locals.radius_px_y

left_center_x == locals.left_center_x

right_center_x == locals.right_center_x

center_y == locals.center_y

\* _bmp_render_to_photomask: px_per_mm_x, px_per_mm_y, the radii, center_y
\* and the two centres.
BmpLocals(disp) ==
  [radius_px_x    |-> RadiusPx(CIRCLE_DIAM_MM_BMP, disp.pix_w, disp.mm_w),
   radius_px_y    |-> RadiusPx(CIRCLE_DIAM_MM_BMP, disp.pix_h, disp.mm_h),
   left_center_x  |-> LeftCenterX(CIRCLE_OFFSET_MM_BMP, disp.pix_w, disp.mm_w),
   right_center_x |-> RightCenterX(CIRCLE_OFFSET_MM_BMP, disp.pix_w, disp.mm_w),
   center_y       |-> CenterY(disp.pix_h)]

\* _gds_render_to_photomask: px_per_mm_x, px_per_mm_y and the radii.
GdsRadii(disp) ==
  [NoLocals EXCEPT !.radius_px_x = RadiusPx(CIRCLE_DIAM_MM_GDS, disp.pix_w, disp.mm_w),
                   !.radius_px_y = RadiusPx(CIRCLE_DIAM_MM_GDS, disp.pix_h, disp.mm_h)]

\* _gds_paste_circle: cy = base.height // 2 and cx of the left and of the
\* right inset, base being the canvas of the display.
GdsCenters(radii, disp) ==
  [radii EXCEPT
     !.center_y       = CenterY(disp.pix_h),
     !.left_center_x  = GdsCenterX("left", CIRCLE_OFFSET_MM_GDS, disp.pix_w, disp.pix_w,
                                   disp.mm_w),
     !.right_center_x = GdsCenterX("right", CIRCLE_OFFSET_MM_GDS, disp.pix_w, disp.pix_w,
                                   disp.mm_w)]

\* _bmp_render_to_photomask up to Image.open: the scalars, the black canvas,
\* the file.
BmpOpen ==
  /\ UNCHANGED <<thrVars, guiVars, dispVars, tempVars, cropVars>>
  /\ call.tool = "bmp"
  /\ pc = "start"
  /\ UNCHANGED <<lib_cells, current_library>>
  /\ locals' = IF call.disp.mm_w = 0 \/ call.disp.mm_h = 0 THEN locals ELSE BmpLocals(call.disp)
  /\ IF call.disp.mm_w = 0 \/ call.disp.mm_h = 0 THEN Fail("ZeroDivisionError")
     ELSE IF ~Readable(call.input_path) THEN Fail("FileNotFoundError")
     ELSE /\ base' = ImageNew(call.disp.pix_w, call.disp.pix_h, 0)
          /\ pc' = "opened"
          /\ UNCHANGED <<call, pre_mirror, returned, error, gds_img, img0, saved>>

\* The first _bmp_place_in_circle call: the left inset, not inverted.
BmpPlaceLeft ==
  /\ UNCHANGED <<thrVars, guiVars, dispVars, tempVars, cropVars, locals>>
  /\ call.tool = "bmp"
  /\ pc = "opened"
  /\ UNCHANGED <<lib_cells, current_library>>
  /\ IF radius_px_x < 1 \/ radius_px_y < 1 THEN Fail("ValueError")
     ELSE /\ base' = BmpPlaceInCircle(base, BmpFile(call.input_path), left_center_x, center_y,
                                      radius_px_x, radius_px_y, call.threshold, FALSE)
          /\ pc' = "left"
          /\ UNCHANGED <<call, pre_mirror, returned, error, gds_img, img0, saved>>

\* The second _bmp_place_in_circle call: the right inset, inverted.
BmpPlaceRight ==
  /\ UNCHANGED <<thrVars, guiVars, dispVars, tempVars, cropVars, locals>>
  /\ call.tool = "bmp"
  /\ pc = "left"
  /\ base' = BmpPlaceInCircle(base, BmpFile(call.input_path), right_center_x, center_y,
                              radius_px_x, radius_px_y, call.threshold, TRUE)
  /\ pc' = "placed"
  /\ UNCHANGED <<call, pre_mirror, returned, error, gds_img, img0, lib_cells, current_library, saved>>

\* original_cell.copy(name=temp_name): the copy is entered in the table the
\* gdspy release enters it in; lib.cells is not that table.
CurrentAfterCopy ==
  IF call.registers = "current_library"
  THEN current_library \cup {TempName(call.tool)} ELSE current_library

\* The outcome of the lookup of a cell that is not in the table.  A renderer
\* checks "cell_name not in lib.cells" and raises ValueError("Cell ... not
\* found in GDS."); verarbeiten indexes self.library.cells without a check,
\* which raises KeyError in the slot, unless "not self.library" already
\* held (the truth value of a GdsLibrary without cells is left to gdspy)
\* and the handler asked for a file to be loaded.
CellLookupErrors(which) ==
  IF which = "gds" THEN {"cell not found"} ELSE {"KeyError", "Bitte GDS-Datei laden."}

\* The renderers and verarbeiten from the cell lookup to the check of the
\* layer's polygons: copy, flatten, get_polygons.  A renderer deletes
\* temp_name from lib.cells, if it is there, before it raises; verarbeiten
\* shows the message and returns.
GdsCopyFlatten ==
  /\ UNCHANGED <<thrVars, guiVars, dispVars, tempVars, cropVars, locals>>
  /\ call.tool \in {"gds", "gds_gui"}
  /\ pc = "start"
  /\ IF call.cell_name \notin lib_cells
     THEN /\ \E e \in CellLookupErrors(call.tool) : Fail(e)
          /\ UNCHANGED <<lib_cells, current_library>>
     ELSE /\ current_library' = CurrentAfterCopy
          /\ IF NoGeometry(PolygonsOn(GdsFileCells[call.cell_name], call.layer))
             THEN /\ Fail("no geometry")
                  /\ lib_cells' = IF call.tool = "gds"
                                  THEN DeleteTemp(lib_cells, TempName(call.tool))
                                  ELSE lib_cells
             ELSE /\ UNCHANGED lib_cells
                  /\ pc' = "flattened"
                  /\ UNCHANGED <<call, base, pre_mirror, returned, error, gds_img, img0, saved>>

\* verarbeiten: the save dialog; when it is cancelled the handler returns.
GdsGuiDialog ==
  /\ UNCHANGED <<thrVars, guiVars, dispVars, tempVars, cropVars, locals>>
  /\ call.tool = "gds_gui"
  /\ pc = "flattened"
  /\ \E accepted \in BOOLEAN : pc' = IF accepted THEN "accepted" ELSE "cancelled"
  /\ UNCHANGED <<call, base, pre_mirror, returned, error, gds_img, img0, lib_cells, current_library,
                 saved>>

\* The scalars, the bounding box and the rasterised layer.  The division by
\* a zero display size raises before any cleanup; verarbeiten has its
\* display built in and reads the bounding box without a check.
GdsRasterize ==
  /\ UNCHANGED <<thrVars, guiVars, dispVars, tempVars, cropVars>>
  /\ \/ call.tool = "gds" /\ pc = "flattened"
     \/ call.tool = "gds_gui" /\ pc = "accepted"
  /\ locals' = IF call.disp.mm_w = 0 \/ call.disp.mm_h = 0 THEN locals ELSE GdsRadii(call.disp)
  /\ IF call.disp.mm_w = 0 \/ call.disp.mm_h = 0
     THEN /\ Fail("ZeroDivisionError")
          /\ UNCHANGED <<lib_cells, current_library>>
     ELSE IF ~HasBoundingBox(GdsFileCells[call.cell_name])
     THEN /\ Fail(IF call.tool = "gds" THEN "empty cell" ELSE "TypeError")
          /\ lib_cells' = IF call.tool = "gds" THEN DeleteTemp(lib_cells, TempName(call.tool))
                          ELSE lib_cells
          /\ UNCHANGED current_library
     ELSE /\ gds_img' = GdsRaster(PolygonsOn(GdsFileCells[call.cell_name], call.layer),
                                  BoundingBox(GdsFileCells[call.cell_name]),
                                  call.disp, locals'.radius_px_x, locals'.radius_px_y)
          /\ pc' = "rasterized"
          /\ UNCHANGED <<call, base, pre_mirror, returned, error, img0, lib_cells,
                         current_library, saved>>

\* The black canvas and the two _gds_paste_circle calls: left as drawn, right
\* inverted.
GdsPasteCircles ==
  /\ UNCHANGED <<thrVars, guiVars, dispVars, tempVars, cropVars>>
  /\ call.tool \in {"gds", "gds_gui"}
  /\ pc = "rasterized"
  /\ locals' = GdsCenters(locals, call.disp)
  /\ base' = GdsPasteCircle(
               GdsPasteCircle(ImageNew(call.disp.pix_w, call.disp.pix_h, 0), gds_img,
                              radius_px_x, radius_px_y, locals'.left_center_x,
                              locals'.center_y, FALSE),
               gds_img, radius_px_x, radius_px_y, locals'.right_center_x, locals'.center_y,
               TRUE)
  /\ pc' = "placed"
  /\ UNCHANGED <<call, pre_mirror, returned, error, gds_img, img0, lib_cells, current_library, saved>>

\* base = ImageOps.mirror(base); the GDS renderer deletes temp_name from
\* lib.cells, if it is there; return base.
MirrorAndReturn ==
  /\ UNCHANGED <<thrVars, guiVars, dispVars, tempVars, cropVars, locals>>
  /\ call.tool \in {"bmp", "gds"}
  /\ pc = "placed"
  /\ pre_mirror' = base
  /\ base' = ImageOps_mirror(base)
  /\ returned' = base'
  /\ lib_cells' = IF call.tool = "gds" THEN DeleteTemp(lib_cells, TempName(call.tool))
                  ELSE lib_cells
  /\ pc' = "returned"
  /\ UNCHANGED <<call, error, gds_img, img0, current_library, saved>>

\* verarbeiten: the mirror, base.save (which may fail, the failure is shown
\* and swallowed), and the cleanup: if "__temp_flat__" in self.library.cells:
\* del self.library.cells["__temp_flat__"], whichever cell has that name.
GdsGuiSave ==
  /\ UNCHANGED <<thrVars, guiVars, dispVars, tempVars, cropVars, locals>>
  /\ call.tool = "gds_gui"
  /\ pc = "placed"
  /\ pre_mirror' = base
  /\ base' = ImageOps_mirror(base)
  /\ \E ok \in BOOLEAN :
       /\ saved' = IF ok THEN base' ELSE saved
       /\ error' = IF ok THEN error ELSE "save failed"
  /\ lib_cells' = DeleteTemp(lib_cells, TempName(call.tool))
  /\ pc' = "finished"
  /\ UNCHANGED <<call, returned, gds_img, img0, current_library>>

\* GerberWorker.run up to the rendered layer: the scalars and
\* _gerber_render_bw_with_origin.
GerberRenderLayer ==
  /\ UNCHANGED <<thrVars, guiVars, dispVars, tempVars, cropVars, locals>>
  /\ call.tool = "gerber"
  /\ pc = "start"
  /\ UNCHANGED <<lib_cells, current_library>>
  /\ IF call.disp.mm_w = 0 \/ call.disp.mm_h = 0 THEN Fail("ZeroDivisionError")
     ELSE IF call.input_path \notin DOMAIN GerberInfo THEN Fail("parse error")
     ELSE /\ img0' = GerberRaster(call.input_path, Dpmm(call.disp))
          /\ pc' = "rendered"
          /\ UNCHANGED <<call, base, pre_mirror, returned, error, gds_img, saved>>

\* _gerber_build_canvas: img = img.resize(...); the resize raises when a
\* target size is below 1.
GerberResize ==
  /\ UNCHANGED <<thrVars, guiVars, dispVars, tempVars, cropVars, locals>>
  /\ call.tool = "gerber"
  /\ pc = "rendered"
  /\ UNCHANGED <<lib_cells, current_library>>
  /\ IF \/ ResizeW(call.disp, GerberInfo[call.input_path].w_mm) < 1
        \/ ResizeH(call.disp, GerberInfo[call.input_path].h_mm) < 1
     THEN Fail("ValueError")
     ELSE /\ img0' = Resize(img0, ResizeW(call.disp, GerberInfo[call.input_path].w_mm),
                            ResizeH(call.disp, GerberInfo[call.input_path].h_mm))
          /\ pc' = "resized"
          /\ UNCHANGED <<call, base, pre_mirror, returned, error, gds_img, saved>>

\* _gerber_build_canvas: the white sub-canvas and the paste of the layer.
GerberBuildPcb ==
  /\ UNCHANGED <<thrVars, guiVars, dispVars, tempVars, cropVars, locals>>
  /\ call.tool = "gerber"
  /\ pc = "resized"
  /\ base' = PcbPaste(img0, GerberInfo[call.input_path], call.disp,
                      call.pcb_mm[1], call.pcb_mm[2])
  /\ pc' = "pasted"
  /\ UNCHANGED <<call, pre_mirror, returned, error, gds_img, img0, lib_cells,
                 current_library, saved>>

\* _gerber_build_canvas: the optional mirror and inversion of the sub-canvas.
GerberMirrorInvert ==
  /\ UNCHANGED <<thrVars, guiVars, dispVars, tempVars, cropVars, locals>>
  /\ call.tool = "gerber"
  /\ pc = "pasted"
  /\ base' = MirrorInvert(base, call.invert, call.mirror)
  /\ pc' = "pcb"
  /\ UNCHANGED <<call, pre_mirror, returned, error, gds_img, img0, lib_cells,
                 current_library, saved>>

\* _gerber_build_canvas: the display canvas with the sub-canvas in its
\* centre; return canvas.
GerberCenterAndReturn ==
  /\ UNCHANGED <<thrVars, guiVars, dispVars, tempVars, cropVars, locals>>
  /\ call.tool = "gerber"
  /\ pc = "pcb"
  /\ returned' = CenterOnDisplay(base, call.disp.pix_w, call.disp.pix_h)
  /\ pc' = "returned"
  /\ UNCHANGED <<call, base, pre_mirror, error, gds_img, img0, lib_cells,
                 current_library, saved>>

Ended == pc \in {"returned", "failed", "cancelled", "finished"}

NextRender ==
  \/ BmpOpen \/ BmpPlaceLeft \/ BmpPlaceRight
  \/ GdsCopyFlatten \/ GdsGuiDialog \/ GdsRasterize \/ GdsPasteCircles
  \/ MirrorAndReturn \/ GdsGuiSave
  \/ GerberRenderLayer \/ GerberResize \/ GerberBuildPcb \/ GerberMirrorInvert
  \/ GerberCenterAndReturn

SpecRender == InitRender /\ [][NextRender]_vars

\* ------------------------------------------------------------------------
\* Properties of the render calls.
\* ------------------------------------------------------------------------
\* The inset pixel q (a pixel of the 2 * radius_px_x by 2 * radius_px_y inset
\* image) is opaque in the ellipse mask.
Opaque(q) == PixelAt(EllipseMask(2 * radius_px_x, 2 * radius_px_y), q) = 255

\* The canvas position of the inset pixel q in the left and the right inset.
LeftPos(q) == <<left_center_x - radius_px_x + q[1], center_y - radius_px_y + q[2]>>

RightPos(q) == <<right_center_x - radius_px_x + q[1], center_y - radius_px_y + q[2]>>

InsetPixels == Pixels(2 * radius_px_x, 2 * radius_px_y)

\* The inset pixels read on the canvas: all of them; of an inset of the
\* built-in display those of a grid of SampleSteps + 1 columns and rows, the
\* first and the last column and row among them.
SampleSteps == 8

InsetSample ==
  IF Held(2 * radius_px_x, 2 * radius_px_y) THEN InsetPixels
  ELSE {<<(i * (2 * radius_px_x - 1)) \div SampleSteps,
          (j * (2 * radius_px_y - 1)) \div SampleSteps>> : i, j \in 0 .. SampleSteps}

\* The position p lies on the canvas.
OnCanvas(p) == p[1] \in 0 .. (base.w - 1) /\ p[2] \in 0 .. (base.h - 1)

InLeftMask(p) == \E q \in InsetPixels : Opaque(q) /\ LeftPos(q) = p

InRightMask(p) == \E q \in InsetPixels : Opaque(q) /\ RightPos(q) = p

\* The geometry invariant of the dual-circle layout: offset + diameter / 2
\* does not exceed half the physical width, so the insets lie side by side.
InsetsApart == 2 * circle_offset_mm + circle_diam_mm <= call.disp.mm_w

\* C1 (as stated, for displays whose insets lie side by side): before the
\* mirror every canvas pixel inside the right inset's ellipse mask equals 255
\* minus the canvas pixel at the corresponding position of the left inset.
C1_RightIsInverseOfLeft ==
  (call.tool \in {"bmp", "gds", "gds_gui"} /\ pc = "placed" /\ InsetsApart) =>
    \A q \in InsetSample :
      (Opaque(q) /\ OnCanvas(LeftPos(q)) /\ OnCanvas(RightPos(q))) =>
        PixelAt(base, RightPos(q)) = 255 - PixelAt(base, LeftPos(q))

\* C2: the canvas the bitmap and GDS renderers return is the left-right flip
\* of the canvas as it stood after both placements, and flipping it once more
\* gives that canvas back.
C2_MirrorUnconditional ==
  (call.tool \in {"bmp", "gds"} /\ pc = "returned") =>
    /\ returned.w = pre_mirror.w /\ returned.h = pre_mirror.h
    /\ DOMAIN returned.px = DOMAIN pre_mirror.px
    /\ \A p \in DOMAIN returned.px :
         returned.px[p] = pre_mirror.px[<<pre_mirror.w - 1 - p[1], p[2]>>]
    /\ ImageOps_mirror(returned) = pre_mirror

\* A call returned a canvas that differs from its own flip.
C2_Witness ==
  /\ call.tool \in {"bmp", "gds"} /\ pc = "returned"
  /\ returned # pre_mirror
  /\ \E p \in DOMAIN pre_mirror.px : pre_mirror.px[p] = 255

\* C3: every canvas a renderer returns is a single 8-bit channel of exactly
\* the display's pixel width and height.
C3_CanvasSize ==
  pc = "returned" =>
    /\ returned.w = call.disp.pix_w /\ returned.h = call.disp.pix_h
    /\ DOMAIN returned.px = Pixels(call.disp.pix_w, call.disp.pix_h)
    /\ \A p \in DOMAIN returned.px : returned.px[p] \in 0 .. 255

\* A Gerber call returned with a PCB sub-canvas larger than the display.
C3_Witness ==
  /\ call.tool = "gerber" /\ pc = "returned"
  /\ DrawW(call.disp, call.pcb_mm[1]) > call.disp.pix_w
  /\ DrawH(call.disp, call.pcb_mm[2]) > call.disp.pix_h

\* C4: a GDS call for an existing cell without polygons on (layer, 0) gets
\* no further than the check of the polygons: it ends with the no-geometry
\* error, and no canvas is built, returned or saved.
C4_NoGeometryIsError ==
  (/\ call.tool \in {"gds", "gds_gui"}
   /\ call.cell_name \in DOMAIN GdsFileCells
   /\ PolygonsOn(GdsFileCells[call.cell_name], call.layer) = {}) =>
    /\ pc \in {"start", "failed"}
    /\ pc = "failed" => error = "no geometry"
    /\ base = NoImage /\ returned = NoImage /\ saved = NoImage

\* A call for layer 4 of TOP, which has a datatype 1 polygon only, failed.
C4_Witness ==
  /\ call.tool \in {"gds", "gds_gui"} /\ call.cell_name = "TOP" /\ call.layer = 4
  /\ pc = "failed" /\ error = "no geometry"

\* C5 (as stated): when a GDS call has ended, on whatever path, the cell
\* table of the library holds exactly the cells it held before the call,
\* those of the file.
C5_TempCellDiscarded ==
  (call.tool \in {"gds", "gds_gui"} /\ Ended) => lib_cells = LoadedCells(call)

\* C10 (as stated): bitmap call, solid white input, threshold in 1..254:
\* before the mirror the left mask is 255, the right mask is 0 and the rest
\* of the canvas is 0.
C10_SolidWhiteAnyDisplay ==
  (/\ call.tool = "bmp" /\ call.input_path = "white.png"
   /\ call.threshold \in 1 .. 254 /\ pc = "placed") =>
    \A p \in DOMAIN base.px :
      /\ InLeftMask(p) => base.px[p] = 255
      /\ InRightMask(p) => base.px[p] = 0
      /\ (~InLeftMask(p) /\ ~InRightMask(p)) => base.px[p] = 0

\* C10 (amended): the same on a display whose insets lie side by side.
C10_SolidWhite ==
  (/\ call.tool = "bmp" /\ call.input_path = "white.png"
   /\ call.threshold \in 1 .. 254 /\ pc = "placed" /\ InsetsApart) =>
    \A p \in DOMAIN base.px :
      /\ InLeftMask(p) => base.px[p] = 255
      /\ InRightMask(p) => base.px[p] = 0
      /\ (~InLeftMask(p) /\ ~InRightMask(p)) => base.px[p] = 0

\* Both insets of a solid white image are on the canvas of a display whose
\* insets lie side by side.
C10_Witness ==
  /\ call.tool = "bmp" /\ call.input_path = "white.png"
  /\ call.threshold \in 1 .. 254 /\ pc = "placed" /\ InsetsApart
  /\ \E p \in DOMAIN base.px : InLeftMask(p) /\ base.px[p] = 255
  /\ \E p \in DOMAIN base.px : InRightMask(p) /\ base.px[p] = 0

\* The transform of the specification: toPixelsX(mm) = round(mm * px_per_mm_x)
\* and toPixelsY(mm) = round(mm * px_per_mm_y), lengths in thousandths of a
\* millimetre.
toPixelsX(disp, mm) == PyRound(FloatMul(FloatOfMilli(mm), PxPerMm(disp.pix_w, disp.mm_w)))

toPixelsY(disp, mm) == PyRound(FloatMul(FloatOfMilli(mm), PxPerMm(disp.pix_h, disp.mm_h)))

\* The layer of the Gerber call, as pygerber reports it.
info == GerberInfo[call.input_path]

\* The layer's bounding box is the PCB: no offset, and the PCB's size.
LayerIsPcb ==
  /\ info.min_x_mm = 0 /\ info.max_y_mm = 0
  /\ info.w_mm = call.pcb_mm[1] /\ info.h_mm = call.pcb_mm[2]

\* C11: when the layer's bounding box is the PCB (zero offset, same size)
\* and mirror and invert are off, the finished PCB sub-canvas has the pixel
\* size of the resampled layer raster and equals it pixel for pixel.
C11_LayerFillsPcb ==
  (call.tool = "gerber" /\ pc = "pcb" /\ LayerIsPcb /\ ~call.mirror /\ ~call.invert) =>
    /\ base.w = img0.w /\ base.h = img0.h
    /\ base.px = img0.px

\* C16: the resampled layer raster lies in the PCB sub-canvas with its top
\* left corner at (round(min_x_mm * px_per_mm_x), round(-max_y_mm *
\* px_per_mm_y)): every sub-canvas pixel the raster covers holds the raster's
\* pixel, every other one the white fill, and what falls outside is dropped.
C16_PasteOffset ==
  (call.tool = "gerber" /\ pc = "pasted") =>
    LET ox == toPixelsX(call.disp, info.min_x_mm)
        oy == toPixelsY(call.disp, -info.max_y_mm)
    IN  \A p \in DOMAIN base.px :
          LET q == <<p[1] - ox, p[2] - oy>>
          IN  base.px[p] = IF q \in DOMAIN img0.px THEN img0.px[q] ELSE 255

\* A layer whose top lies below the board's origin was pasted at a non-zero
\* offset; it shows in the sub-canvas, and its right part fell outside.
C16_Witness ==
  /\ call.tool = "gerber" /\ pc = "pasted"
  /\ info.max_y_mm < 0 /\ toPixelsY(call.disp, -info.max_y_mm) > 0
  /\ toPixelsX(call.disp, info.min_x_mm) + img0.w > base.w
  /\ \E p \in DOMAIN base.px : base.px[p] # 255

\* C17: the sub-canvas lies on the display canvas at ((display_px_w -
\* pcb_px_w) // 2, (display_px_h - pcb_px_h) // 2): the margins on opposite
\* sides differ by at most one pixel, the display pixels inside the
\* sub-canvas rectangle hold the sub-canvas, and all others are 0.
C17_Centered ==
  (call.tool = "gerber" /\ pc = "returned") =>
    LET x      == (call.disp.pix_w - base.w) \div 2
        y      == (call.disp.pix_h - base.h) \div 2
        right  == call.disp.pix_w - base.w - x
        bottom == call.disp.pix_h - base.h - y
    IN  /\ right - x \in {0, 1} /\ bottom - y \in {0, 1}
        /\ \A p \in DOMAIN returned.px :
             LET q == <<p[1] - x, p[2] - y>>
             IN  returned.px[p] = IF q \in DOMAIN base.px THEN base.px[q] ELSE 0

\* A call returned whose sub-canvas is smaller than the display, with odd
\* room left over, and shows pixels that are not black.
C17_Witness ==
  /\ call.tool = "gerber" /\ pc = "returned"
  /\ base.w < call.disp.pix_w /\ base.h < call.disp.pix_h
  /\ (call.disp.pix_w - base.w) % 2 = 1
  /\ \E p \in DOMAIN returned.px : returned.px[p] # 0

\* C18: the PCB sub-canvas has (toPixelsX(pcb_width_mm),
\* toPixelsY(pcb_height_mm)) pixels, rounded to nearest, and is white
\* wherever the layer raster does not cover it.
C18_PcbCanvasSize ==
  (call.tool = "gerber" /\ pc = "pasted") =>
    /\ base.w = toPixelsX(call.disp, call.pcb_mm[1])
    /\ base.h = toPixelsY(call.disp, call.pcb_mm[2])
    /\ \A p \in DOMAIN base.px :
         <<p[1] - OffsetX(call.disp, info.min_x_mm),
           p[2] - OffsetY(call.disp, info.max_y_mm)>> \notin DOMAIN img0.px
           => base.px[p] = 255

\* C19: the rendered layer raster is resampled to (toPixelsX(width_mm),
\* toPixelsY(height_mm)) pixels, rounded to nearest.
C19_ResampledSize ==
  (call.tool = "gerber" /\ pc = "resized") =>
    /\ img0.w = toPixelsX(call.disp, info.w_mm)
    /\ img0.h = toPixelsY(call.disp, info.h_mm)

\* The layer has been rendered at the requested density (and, in the second
\* state, resampled to its target size).
GerberRendered == call.tool = "gerber" /\ pc \in {"rendered", "resized"}

\* C24: the density requested of pygerber, int(2 * px_per_mm_x) dots per
\* millimetre, is at least 1, at least px_per_mm_x and at least px_per_mm_y,
\* and the resample to the target size makes the raster no larger on either
\* axis.
C24_OversampledRaster ==
  GerberRendered =>
    LET dpmm   == Dpmm(call.disp)
        raster == GerberRaster(call.input_path, dpmm)
    IN  /\ dpmm >= 1
        /\ dpmm * call.disp.mm_w >= 1000 * call.disp.pix_w
        /\ dpmm * call.disp.mm_h >= 1000 * call.disp.pix_h
        /\ pc = "resized" => (img0.w <= raster.w /\ img0.h <= raster.h)

\* The sub-canvas as it was before the mirror and inversion options were
\* applied: the white canvas with the resampled layer pasted.
PcbBeforeOptions ==
  PcbPaste(img0, info, call.disp, call.pcb_mm[1], call.pcb_mm[2])

\* The pixel of the sub-canvas before the options that an option-treated
\* pixel p shows: its mirror image in the row exactly when mirror is set,
\* its complement exactly when invert is set.
OptionPixel(pcb, p) ==
  LET q == IF call.mirror THEN <<pcb.w - 1 - p[1], p[2]>> ELSE p
      v == pcb.px[q]
  IN  IF call.invert THEN 255 - v ELSE v

\* C25: the sub-canvas is flipped horizontally exactly when mirror is set
\* and tonally inverted exactly when invert is set (the mirror first, the
\* inversion on its result); with both options off the display canvas holds
\* the sub-canvas as it was pasted, at the centred offset.
C25_MirrorIsOptional ==
  LET pcb == PcbBeforeOptions
  IN  /\ (call.tool = "gerber" /\ pc \in {"pcb", "returned"}) =>
           /\ base.w = pcb.w /\ base.h = pcb.h
           /\ \A p \in DOMAIN base.px : base.px[p] = OptionPixel(pcb, p)
           /\ (call.mirror /\ call.invert) => base = ImageOps_invert(ImageOps_mirror(pcb))
      /\ (call.tool = "gerber" /\ pc = "returned" /\ ~call.mirror /\ ~call.invert) =>
           LET x == (call.disp.pix_w - pcb.w) \div 2
               y == (call.disp.pix_h - pcb.h) \div 2
           IN  \A p \in DOMAIN pcb.px :
                 <<p[1] + x, p[2] + y>> \in DOMAIN returned.px =>
                   returned.px[<<p[1] + x, p[2] + y>>] = pcb.px[p]

\* A call returned with both options off whose sub-canvas is not its own
\* mirror image and not of one tone: a flip or an inversion would show.
C25_Witness ==
  /\ call.tool = "gerber" /\ pc = "returned" /\ ~call.mirror /\ ~call.invert
  /\ ImageOps_mirror(PcbBeforeOptions) # PcbBeforeOptions
  /\ \E p \in DOMAIN base.px : base.px[p] # 255
  /\ base.w <= call.disp.pix_w /\ base.h <= call.disp.pix_h

\* The layer of a call of the GDS renderer has been drawn on its raster.
GdsRasterized == call.tool = "gds" /\ pc = "rasterized"

\* The polygons drawn and the bounding box of the flattened cell.
DrawnPolys == PolygonsOn(GdsFileCells[call.cell_name], call.layer)

CellBox == BoundingBox(GdsFileCells[call.cell_name])

\* The polygon poly covers the centre of the bounding box.
CoversCentre(poly) ==
  \E i, j \in DOMAIN poly.pts :
    /\ 2 * poly.pts[i][1] <= CellBox.x0 + CellBox.x1 /\ CellBox.x0 + CellBox.x1 <= 2 * poly.pts[j][1]
    /\ 2 * poly.pts[i][2] <= CellBox.y0 + CellBox.y1 /\ CellBox.y0 + CellBox.y1 <= 2 * poly.pts[j][2]

\* Every vertex drawn lies at or to the right of, and at or above, the
\* centre of the bounding box.
AllUpRight ==
  \A poly \in DrawnPolys : \A i \in DOMAIN poly.pts :
    /\ 2 * poly.pts[i][1] >= CellBox.x0 + CellBox.x1
    /\ 2 * poly.pts[i][2] >= CellBox.y0 + CellBox.y1

\* The raster is centred on the cell: a polygon that covers the centre of
\* the bounding box covers pixel (radius_px_x, radius_px_y), and geometry up
\* and to the right of the centre shows in the columns from radius_px_x on
\* and in the rows up to radius_px_y (y is negated).
RasterCentred ==
  /\ (\E poly \in DrawnPolys : CoversCentre(poly)) =>
       gds_img.px[<<radius_px_x, radius_px_y>>] = 255
  /\ AllUpRight =>
       \A p \in DOMAIN gds_img.px :
         gds_img.px[p] = 255 => (p[1] >= radius_px_x /\ p[2] <= radius_px_y)

\* C26: the raster handed to the dual-circle compositor has as many pixel
\* columns as rows, and it is centred on the cell's geometry with y negated.
C26_SquareCentredRaster ==
  GdsRasterized => (gds_img.w = gds_img.h /\ RasterCentred)

\* C26 as the code has it: the raster has 2 * radius_px_x columns and
\* 2 * radius_px_y rows, as many columns as rows when the two radii are
\* equal, and it is centred on the cell's geometry with y negated.
C26_InsetSizedCentredRaster ==
  GdsRasterized =>
    /\ gds_img.w = 2 * radius_px_x /\ gds_img.h = 2 * radius_px_y
    /\ radius_px_x = radius_px_y => gds_img.w = gds_img.h
    /\ RasterCentred

\* A layer with a corner at the centre, up and to the right of it, drawn on a
\* raster that is not square: the centre pixel is white, the pixels to its
\* left and below it are black.
C26_Witness ==
  /\ GdsRasterized /\ AllUpRight /\ \E poly \in DrawnPolys : CoversCentre(poly)
  /\ gds_img.w # gds_img.h
  /\ gds_img.px[<<radius_px_x, radius_px_y>>] = 255
  /\ gds_img.px[<<radius_px_x - 1, radius_px_y>>] = 0
  /\ gds_img.px[<<radius_px_x, radius_px_y + 1>>] = 0
  /\ \E p \in DOMAIN gds_img.px : gds_img.px[p] = 255 /\ p[2] < radius_px_y

\* C12: a GDS call for a cell name that is not in the loaded library fails
\* at the lookup with the cell-not-found error: no temporary cell has been
\* entered in any cell table, and no raster or canvas is built, returned or
\* saved.
C12_CellNotFound ==
  (call.tool \in {"gds", "gds_gui"} /\ call.cell_name \notin LoadedCells(call)) =>
    /\ pc \in {"start", "failed"}
    /\ pc = "failed" => error = "cell not found"
    /\ lib_cells = LoadedCells(call) /\ current_library = {}
    /\ gds_img = NoImage /\ base = NoImage /\ returned = NoImage /\ saved = NoImage

\* A renderer was called for a cell the file does not have, and failed.
C12_Witness ==
  /\ call.tool = "gds" /\ call.cell_name = "NOPE"
  /\ pc = "failed" /\ error = "cell not found"

\* C20: the left inset is centred at x = toPixelsX(offset_from_edge_mm), the
\* right one at x = toPixelsX(display_width_mm - offset_from_edge_mm), both
\* at y = canvas_height // 2, rounded to nearest; the radii are
\* (diameter_mm / 2) * px_per_mm truncated, per axis; and the bitmap and the
\* GDS pipeline compute the same centres for the same geometry.
C20_CentersAndRadii ==
  (call.tool \in {"bmp", "gds", "gds_gui"} /\ pc = "placed") =>
    /\ left_center_x = toPixelsX(call.disp, circle_offset_mm)
    /\ right_center_x = toPixelsX(call.disp, call.disp.mm_w - circle_offset_mm)
    /\ center_y = call.disp.pix_h \div 2
    /\ radius_px_x = PyInt(FloatMul(FloatOfMilli(circle_diam_mm \div 2),
                                     PxPerMm(call.disp.pix_w, call.disp.mm_w)))
    /\ radius_px_y = PyInt(FloatMul(FloatOfMilli(circle_diam_mm \div 2),
                                     PxPerMm(call.disp.pix_h, call.disp.mm_h)))
    /\ LeftCenterX(CIRCLE_OFFSET_MM_BMP, call.disp.pix_w, call.disp.mm_w)
         = GdsCenterX("left", CIRCLE_OFFSET_MM_GDS, call.disp.pix_w, call.disp.pix_w,
                      call.disp.mm_w)
    /\ RightCenterX(CIRCLE_OFFSET_MM_BMP, call.disp.pix_w, call.disp.mm_w)
         = GdsCenterX("right", CIRCLE_OFFSET_MM_GDS, call.disp.pix_w, call.disp.pix_w,
                      call.disp.mm_w)


\* ------------------------------------------------------------------------
\* The positions of the two insets.
\* A renderer has pasted both insets.
DualCirclePlaced == call.tool \in {"bmp", "gds"} /\ pc = "placed"

\* The canvas position ImageOps.mirror moves the canvas position p to.
MirrorX(p) == <<call.disp.pix_w - 1 - p[1], p[2]>>

\* The paste rectangles of the two insets.
LeftRect == {LeftPos(q) : q \in InsetPixels}

RightRect == {RightPos(q) : q \in InsetPixels}

\* C21: the two insets sit at symmetric positions: left_center_x +
\* right_center_x equals the pixel width of the canvas, and the mirror maps
\* the left inset's paste rectangle onto the right inset's paste rectangle.
C21_SymmetricInsets ==
  /\ (call.tool \in {"bmp", "gds", "gds_gui"} /\ pc = "placed") =>
       left_center_x + right_center_x = call.disp.pix_w
  /\ DualCirclePlaced => {MirrorX(p) : p \in LeftRect} = RightRect

\* Both paste rectangles lie inside the canvas.
RectsInside == LeftRect \subseteq DOMAIN base.px /\ RightRect \subseteq DOMAIN base.px

\* The paste rectangles have no pixel in common.
RectsDisjoint == LeftRect \cap RightRect = {}

\* The image the left inset was pasted from.
LeftInset ==
  IF call.tool = "bmp"
  THEN BmpScaled(BmpFile(call.input_path), radius_px_x, radius_px_y, call.threshold, FALSE)
  ELSE gds_img

\* After both pastes the opaque pixels of the left inset are as the first
\* paste left them.
LeftInsetIntact ==
  \A q \in InsetPixels :
    (Opaque(q) /\ LeftPos(q) \in DOMAIN base.px) => base.px[LeftPos(q)] = LeftInset.px[q]

InsetsFit ==
  /\ InsetsApart
  /\ circle_diam_mm <= call.disp.mm_h
  /\ circle_diam_mm <= 2 * circle_offset_mm

MaxApplications == 2

\* The thresholds of the spin box (range 0..254) and the 8-bit intensities.
InitThreshold ==
  /\ thr \in [t : 0 .. 254, v : 0 .. 255]
  /\ outs = <<>>
  /\ NoRenderCall
  /\ NoWindow
  /\ NoDisplay
  /\ NoTempCells
  /\ NoCrop

\* The point operation applied to the pixel, or to the result of the
\* application before.
ApplyThreshold ==
  /\ Len(outs) < MaxApplications
  /\ outs' = Append(outs, PointThreshold(IF outs = <<>> THEN thr.v ELSE outs[Len(outs)], thr.t))
  /\ UNCHANGED <<thr, renderVars, guiVars, dispVars, tempVars, cropVars>>

NextThreshold == ApplyThreshold

SpecThreshold == InitThreshold /\ [][NextThreshold]_vars

\* C9: B_t(v) is 255 when v >= t and 0 otherwise, so always 0 or 255, and
\* applying B_t to the result again gives the same result.
C9_ThresholdStepIdempotent ==
  /\ Len(outs) >= 1 =>
       /\ outs[1] = (IF thr.v >= thr.t THEN 255 ELSE 0)
       /\ outs[1] \in {0, 255}
  /\ \A i \in 2 .. Len(outs) : outs[i] = outs[1]

\* The threshold was applied twice to a pixel exactly at the threshold.
C9_Witness == Len(outs) = 2 /\ thr.v = thr.t /\ thr.t > 0 /\ outs = <<255, 255>>

\* ------------------------------------------------------------------------
\* The tool windows: the tabs of the toolkit and the stand-alone windows,
\* which render in a worker thread (GerberTab, GDSTab, BitmapTab), and the
\* first generation tools, which render in the click handler (MainGUI of
\* gerber2anycubic_png, KreisProjektorGUI of bitmap2anycubic_png).
\* ------------------------------------------------------------------------
ThreadedTools == {"GerberTab", "GDSTab", "BitmapTab"}

Tools == ThreadedTools \cup {"MainGUI", "KreisProjektorGUI"}

\* The values the threshold spin box takes in the window (range 0..254,
\* 128 unless the settings say otherwise).
GuiThresholds == {64, 128}

\* What _load_gds_metadata leaves in the combo boxes, as <<combo_cell.count()
\* > 0, combo_layer.count() > 0>>: of a file that cannot be read or has no
\* cells, of a file whose cells have no polygons, of a file with polygons.
\* The entries of combo_layer are str(ly) of the layer numbers.
GdsMetadata == {<<FALSE, FALSE>>, <<TRUE, FALSE>>, <<TRUE, TRUE>>}

\* The tools that have a field for the input path and a field for the
\* output path (KreisProjektorGUI keeps self.image_path only, which its file
\* dialog sets).
FieldTools == ThreadedTools \cup {"MainGUI"}

\* The window after __init__ and load_settings.  The fields hold the stored
\* input and output paths, the threshold box of BitmapTab the stored
\* threshold (valueChanged finds self.image_path still None and starts no
\* timer); GDSTab reads the metadata of a stored path that names a file.
\* KreisProjektorGUI stores nothing: self.image_path is None.
InitGui ==
  /\ tool \in Tools
  /\ path_ok \in (IF tool \in FieldTools THEN BOOLEAN ELSE {FALSE})
  /\ path_empty \in (IF tool \notin FieldTools THEN {TRUE}
                     ELSE IF path_ok THEN {FALSE} ELSE BOOLEAN)
  /\ png_edit \in (IF tool \in FieldTools THEN BOOLEAN ELSE {FALSE})
  /\ \E m \in (IF tool = "GDSTab" /\ path_ok THEN GdsMetadata ELSE {<<FALSE, FALSE>>}) :
       combo_cell = m[1] /\ combo_layer = m[2]
  /\ HAVE_PYGERBER \in (IF tool = "GerberTab" THEN BOOLEAN ELSE {TRUE})
  /\ dialog = "none"
  /\ image_path_ok = (tool = "BitmapTab" /\ path_ok)
  /\ prepare_thread = 0
  /\ prepare_worker = 0
  /\ thread = [n \in Renders |-> "none"]
  /\ worker = [n \in Renders |-> "none"]
  /\ canvas = [n \in Renders |-> "none"]
  /\ queue = <<>>
  /\ direct = [n \in Renders |-> NoDirectCall]
  /\ nested = 0
  /\ timer = FALSE
  /\ cursor = 0
  /\ controls = TRUE
  /\ save_btn = FALSE
  /\ image = 0
  /\ files = {}
  /\ started = 0
  /\ spin_threshold \in (IF tool = "BitmapTab" THEN GuiThresholds ELSE {128})
  /\ worker_thr = [n \in Renders |-> -1]
  /\ image_thr = -1
  /\ preview_thr = -1
  /\ last_thr = -1
  /\ NoRenderCall
  /\ NoThreshold
  /\ NoDisplay
  /\ NoTempCells
  /\ NoCrop

\* QThread.isRunning(): true from start() until the thread has emitted
\* finished and stopped.
isRunning(n) == thread[n] \in {"running", "quitting", "finishing"}

\* self._prepare_thread and self._prepare_thread.isRunning()
AlreadyPreparing == prepare_thread # 0 /\ isRunning(prepare_thread)

\* A run() that emits finished whether or not the render returned.
RunAlwaysEmitsFinished(ok) == "finished"

\* The signal a worker's run() emits: finished with the canvas when the
\* render returned, error when it raised.
RunEmits(ok) == IF ok THEN "finished" ELSE "error"

\* The slots connected to a worker's signal, in the order of the connect
\* calls.
SlotsOf(signal) ==
  IF signal = "finished" THEN <<"_prepare_finished", "quit">> ELSE <<"_prepare_error", "quit">>

Calls(slots, n) == [i \in DOMAIN slots |-> [slot |-> slots[i], render |-> n]]

\* A run() without the return after error.emit: it goes on to emit finished.
RunFallsThrough(ok) == IF ok THEN <<"finished">> ELSE <<"error", "finished">>

\* The signals one run() emits, in order: error.emit(str(e)) and return in
\* the except clause, else finished.emit(img) as the last statement.
RunSignals(ok) == <<RunEmits(ok)>>

RECURSIVE SlotsCalled(_)
\* The slots the signals of a run() call, in order.
SlotsCalled(signals) ==
  IF signals = <<>> THEN <<>> ELSE SlotsOf(Head(signals)) \o SlotsCalled(Tail(signals))

\* A slot that emit calls at once, in the worker's thread.  The bound
\* methods of the tab and of the QThread have their receiver in the main
\* thread, their calls are queued.  BitmapTab connects finished to a lambda
\* after worker.moveToThread(thread): the proxy PyQt makes for the lambda
\* lives in the thread of the sender, so _prepare_finished runs inside
\* finished.emit in the worker's thread.
DirectSlot(t, slot) == t = "BitmapTab" /\ slot = "_prepare_finished"

RECURSIVE QueuedSlots(_, _)
\* The slots in front of the first one that is called at once.
QueuedSlots(t, slots) ==
  IF slots = <<>> \/ DirectSlot(t, Head(slots)) THEN <<>>
  ELSE <<Head(slots)>> \o QueuedSlots(t, Tail(slots))

\* The slot calls queued for the main thread as emit goes through slots for
\* render n, up to the first slot it calls at once.
QueuedCalls(t, slots, n) == Calls(QueuedSlots(t, slots), n)

\* What emit has left to do after those: the slot it calls at once, which
\* has just been entered, and the slots after it; nothing when every call
\* was queued.
DirectCall(t, slots) ==
  LET rest == SubSeq(slots, Len(QueuedSlots(t, slots)) + 1, Len(slots))
  IN  [rest |-> rest, at |-> IF rest = <<>> THEN "none" ELSE "entered"]

\* prepare_output past its checks: busy cursor, controls off, a new worker
\* in a new thread, thread.start().
StartRender ==
  /\ cursor' = cursor + 1
  /\ controls' = FALSE
  /\ save_btn' = FALSE
  /\ started' = started + 1
  /\ prepare_worker' = started + 1
  /\ prepare_thread' = started + 1
  /\ thread' = [thread EXCEPT ![started + 1] = "running"]
  /\ worker' = [worker EXCEPT ![started + 1] = "pending"]
  /\ worker_thr' = [worker_thr EXCEPT ![started + 1] =
                      IF tool = "BitmapTab" THEN spin_threshold ELSE -1]
  /\ last_thr' = IF tool = "BitmapTab" THEN spin_threshold ELSE -1

\* GDSTab.prepare_output: if self.combo_cell.count() == 0 or
\* self.combo_layer.count() == 0.  (int(self.combo_layer.currentText()) does
\* not raise: the combo box is not editable and its entries are numbers.)
NoCellOrLayer == tool = "GDSTab" /\ (~combo_cell \/ ~combo_layer)

\* GerberTab.prepare_output: if not HAVE_PYGERBER
NoPygerber == tool = "GerberTab" /\ ~HAVE_PYGERBER

\* prepare_output of the threaded tools: nothing while a render thread runs,
\* while the path field names no file, in GDSTab while a combo box is empty,
\* in GerberTab without pygerber.
prepare_output ==
  IF AlreadyPreparing \/ ~path_ok \/ NoCellOrLayer \/ NoPygerber
  THEN UNCHANGED <<cursor, controls, save_btn, started, prepare_worker, prepare_thread, thread,
                   worker, worker_thr, last_thr>>
  ELSE StartRender

\* No file dialog is open: the window takes the user's input.  A file
\* dialog (QFileDialog.getOpenFileName, getSaveFileName) runs an event loop
\* of its own until it is closed: the window takes no input, the timer, the
\* queued slot calls and the worker threads go on.
NoDialog == dialog = "none"

\* A click on Prepare Output (the button is enabled, no dialog is open).
PrepareClick ==
  /\ tool \in ThreadedTools
  /\ controls
  /\ NoDialog
  /\ started < MaxRenders
  /\ prepare_output
  /\ UNCHANGED <<tool, HAVE_PYGERBER, combo_cell, combo_layer, path_empty, png_edit, dialog,
                 path_ok, image_path_ok, canvas, queue, direct, nested, timer, image, files,
                 spin_threshold, image_thr, preview_thr, renderVars, thrVars, dispVars, tempVars,
                 cropVars>>

\* BitmapTab._on_threshold_changed (the spin box is enabled): the debounce
\* timer is started when self.image_path names a file.
ThresholdChange ==
  /\ tool = "BitmapTab"
  /\ controls
  /\ NoDialog
  /\ spin_threshold' \in GuiThresholds \ {spin_threshold}
  /\ timer' = (image_path_ok \/ timer)
  /\ UNCHANGED <<tool, HAVE_PYGERBER, combo_cell, combo_layer, path_empty, png_edit, dialog,
                 path_ok, image_path_ok, prepare_thread, prepare_worker, thread, worker, canvas,
                 queue, direct, nested, cursor, controls, save_btn, image, files, started,
                 worker_thr, image_thr, preview_thr, last_thr, renderVars, thrVars, dispVars,
                 tempVars, cropVars>>

\* BitmapTab._live_preview_trigger: the single-shot timer times out; it is
\* started again while a render thread runs, else prepare_output is called.
TimerTimeout ==
  /\ tool = "BitmapTab"
  /\ timer
  /\ started < MaxRenders
  /\ IF AlreadyPreparing
     THEN /\ timer' = TRUE
          /\ UNCHANGED <<cursor, controls, save_btn, started, prepare_worker, prepare_thread,
                         thread, worker, worker_thr, last_thr>>
     ELSE /\ timer' = FALSE
          /\ prepare_output
  /\ UNCHANGED <<tool, HAVE_PYGERBER, combo_cell, combo_layer, path_empty, png_edit, dialog,
                 path_ok, image_path_ok, canvas, queue, direct, nested, image, files,
                 spin_threshold, image_thr, preview_thr, renderVars, thrVars, dispVars, tempVars,
                 cropVars>>

\* browse_gerber, browse_gds, browse_bitmap, bild_auswaehlen up to
\* QFileDialog.getOpenFileName (the browse button is enabled): the dialog
\* opens.
Browse ==
  /\ tool \in Tools
  /\ controls
  /\ NoDialog
  /\ dialog' = "browse"
  /\ UNCHANGED <<tool, HAVE_PYGERBER, combo_cell, combo_layer, path_empty, png_edit, path_ok,
                 image_path_ok, prepare_thread, prepare_worker, thread, worker, canvas, queue,
                 direct, nested, timer, cursor, controls, save_btn, image, files, started,
                 spin_threshold, worker_thr, image_thr, preview_thr, last_thr, renderVars,
                 thrVars, dispVars, tempVars, cropVars>>

\* getOpenFileName returns, and the handler runs to its end: with a file
\* chosen the path field is set to it (self.image_path of BitmapTab and of
\* KreisProjektorGUI too) and GDSTab fills the combo boxes from the file
\* (_load_gds_metadata); with none chosen nothing is changed.
BrowseReturn ==
  /\ dialog = "browse"
  /\ dialog' = "none"
  /\ \E chosen \in BOOLEAN :
       IF chosen
       THEN /\ path_ok' = TRUE
            /\ path_empty' = FALSE
            /\ image_path_ok' = (tool = "BitmapTab")
            /\ \E m \in (IF tool = "GDSTab" THEN GdsMetadata
                         ELSE {<<combo_cell, combo_layer>>}) :
                 combo_cell' = m[1] /\ combo_layer' = m[2]
       ELSE UNCHANGED <<path_ok, path_empty, image_path_ok, combo_cell, combo_layer>>
  /\ UNCHANGED <<tool, HAVE_PYGERBER, png_edit, prepare_thread, prepare_worker, thread, worker,
                 canvas, queue, direct, nested, timer, cursor, controls, save_btn, image, files,
                 started, spin_threshold, worker_thr, image_thr, preview_thr, last_thr,
                 renderVars, thrVars, dispVars, tempVars, cropVars>>

\* The text of the path field is edited (the field is enabled): the new
\* text names a file, names none, or is empty; self.image_path and the
\* combo boxes are left as they are (no signal of the field is connected).
EditPath ==
  /\ tool \in FieldTools
  /\ controls
  /\ NoDialog
  /\ \E text \in {<<TRUE, FALSE>>, <<FALSE, FALSE>>, <<FALSE, TRUE>>} \ {<<path_ok, path_empty>>} :
       path_ok' = text[1] /\ path_empty' = text[2]
  /\ UNCHANGED <<tool, HAVE_PYGERBER, combo_cell, combo_layer, png_edit, dialog, image_path_ok,
                 prepare_thread, prepare_worker, thread, worker, canvas, queue, direct, nested,
                 timer, cursor, controls, save_btn, image, files, started, spin_threshold,
                 worker_thr, image_thr, preview_thr, last_thr, renderVars, thrVars, dispVars,
                 tempVars, cropVars>>

\* The text of png_edit is edited (the field is enabled): text is put in
\* the empty field, or the field is emptied.
EditPng ==
  /\ tool \in FieldTools
  /\ controls
  /\ NoDialog
  /\ png_edit' = ~png_edit
  /\ UNCHANGED <<tool, HAVE_PYGERBER, combo_cell, combo_layer, path_empty, dialog, path_ok,
                 image_path_ok, prepare_thread, prepare_worker, thread, worker, canvas, queue,
                 direct, nested, timer, cursor, controls, save_btn, image, files, started,
                 spin_threshold, worker_thr, image_thr, preview_thr, last_thr, renderVars,
                 thrVars, dispVars, tempVars, cropVars>>

\* browse_png up to QFileDialog.getSaveFileName (the button is enabled): the
\* dialog opens.
browse_png ==
  /\ tool \in FieldTools
  /\ controls
  /\ NoDialog
  /\ dialog' = "browse_png"
  /\ UNCHANGED <<tool, HAVE_PYGERBER, combo_cell, combo_layer, path_empty, png_edit, path_ok,
                 image_path_ok, prepare_thread, prepare_worker, thread, worker, canvas, queue,
                 direct, nested, timer, cursor, controls, save_btn, image, files, started,
                 spin_threshold, worker_thr, image_thr, preview_thr, last_thr, renderVars,
                 thrVars, dispVars, tempVars, cropVars>>

\* getSaveFileName of browse_png returns: if fn: self.png_edit.setText(fn)
BrowsePngReturn ==
  /\ dialog = "browse_png"
  /\ dialog' = "none"
  /\ \E chosen \in BOOLEAN : png_edit' = (chosen \/ png_edit)
  /\ UNCHANGED <<tool, HAVE_PYGERBER, combo_cell, combo_layer, path_empty, path_ok,
                 image_path_ok, prepare_thread, prepare_worker, thread, worker, canvas, queue,
                 direct, nested, timer, cursor, controls, save_btn, image, files, started,
                 spin_threshold, worker_thr, image_thr, preview_thr, last_thr, renderVars,
                 thrVars, dispVars, tempVars, cropVars>>

\* The thread's started signal calls the worker's run(), which begins to
\* build its canvas.
WorkerBegin(n) ==
  /\ thread[n] = "running"
  /\ worker[n] = "pending"
  /\ worker' = [worker EXCEPT ![n] = "running"]
  /\ canvas' = [canvas EXCEPT ![n] = "partial"]
  /\ UNCHANGED <<tool, HAVE_PYGERBER, combo_cell, combo_layer, path_empty, png_edit, dialog,
                 path_ok, image_path_ok, prepare_thread, prepare_worker, thread, queue, direct,
                 nested, timer, cursor, controls, save_btn, image, files, started,
                 spin_threshold, worker_thr, image_thr, preview_thr, last_thr, renderVars,
                 thrVars, dispVars, tempVars, cropVars>>

\* The render of run() ends: it returned its canvas, or raised, and run()
\* emits.  The calls of the slots are queued for the main thread, up to a
\* slot that emit calls at once.
WorkerEnd(n) ==
  /\ worker[n] = "running"
  /\ \E ok \in BOOLEAN :
       /\ worker' = [worker EXCEPT ![n] = IF ok THEN "done" ELSE "failed"]
       /\ canvas' = [canvas EXCEPT ![n] = IF ok THEN "complete" ELSE "partial"]
       /\ queue' = queue \o QueuedCalls(tool, SlotsCalled(RunSignals(ok)), n)
       /\ direct' = [direct EXCEPT ![n] = DirectCall(tool, SlotsCalled(RunSignals(ok)))]
  /\ UNCHANGED <<tool, HAVE_PYGERBER, combo_cell, combo_layer, path_empty, png_edit, dialog,
                 path_ok, image_path_ok, prepare_thread, prepare_worker, thread, nested, timer,
                 cursor, controls, save_btn, image, files, started, spin_threshold, worker_thr,
                 image_thr, preview_thr, last_thr, renderVars, thrVars, dispVars, tempVars,
                 cropVars>>

\* _prepare_finished in the worker's thread runs beside the main thread,
\* statement by statement.  Its first statement: self.image = pil_img.
DirectAssign(n) ==
  /\ direct[n].at = "entered"
  /\ direct' = [direct EXCEPT ![n].at = "assigned"]
  /\ image' = n
  /\ image_thr' = worker_thr[n]
  /\ worker_thr' = [worker_thr EXCEPT ![n] = -1]
  /\ UNCHANGED <<tool, HAVE_PYGERBER, combo_cell, combo_layer, path_empty, png_edit, dialog,
                 path_ok, image_path_ok, prepare_thread, prepare_worker, thread, worker, canvas,
                 queue, nested, timer, cursor, controls, save_btn, files, started,
                 spin_threshold, preview_thr, last_thr, renderVars, thrVars, dispVars, tempVars,
                 cropVars>>

\* if not self.png_edit.text().strip() and self.bmp_edit.text().strip():
\* self.png_edit.setText(out_path)
SuggestOutput == png_edit \/ ~path_empty

\* _prepare_finished in the worker's thread: the suggested output path.
DirectSuggest(n) ==
  /\ direct[n].at = "assigned"
  /\ direct' = [direct EXCEPT ![n].at = "suggested"]
  /\ png_edit' = SuggestOutput
  /\ UNCHANGED <<tool, HAVE_PYGERBER, combo_cell, combo_layer, path_empty, dialog, path_ok,
                 image_path_ok, prepare_thread, prepare_worker, thread, worker, canvas, queue,
                 nested, timer, cursor, controls, save_btn, image, files, started,
                 spin_threshold, worker_thr, image_thr, preview_thr, last_thr, renderVars,
                 thrVars, dispVars, tempVars, cropVars>>

\* _prepare_finished in the worker's thread: self.preview_callback(self.image)
\* shows self.image as it is now.
DirectPreview(n) ==
  /\ direct[n].at = "suggested"
  /\ direct' = [direct EXCEPT ![n].at = "previewed"]
  /\ preview_thr' = image_thr
  /\ UNCHANGED <<tool, HAVE_PYGERBER, combo_cell, combo_layer, path_empty, png_edit, dialog,
                 path_ok, image_path_ok, prepare_thread, prepare_worker, thread, worker, canvas,
                 queue, nested, timer, cursor, controls, save_btn, image, files, started,
                 spin_threshold, worker_thr, image_thr, last_thr, renderVars, thrVars, dispVars,
                 tempVars, cropVars>>

\* _prepare_finished in the worker's thread: self.save_btn.setEnabled(True)
DirectEnable(n) ==
  /\ direct[n].at = "previewed"
  /\ direct' = [direct EXCEPT ![n].at = "enabled"]
  /\ save_btn' = TRUE
  /\ UNCHANGED <<tool, HAVE_PYGERBER, combo_cell, combo_layer, path_empty, png_edit, dialog,
                 path_ok, image_path_ok, prepare_thread, prepare_worker, thread, worker, canvas,
                 queue, nested, timer, cursor, controls, image, files, started, spin_threshold,
                 worker_thr, image_thr, preview_thr, last_thr, renderVars, thrVars, dispVars,
                 tempVars, cropVars>>

\* _prepare_finished in the worker's thread: self.save_settings() (the
\* settings store is no part of the window's state) and the return; emit
\* goes on to the slots connected after it: the call of the thread's quit is
\* queued.
DirectReturn(n) ==
  /\ direct[n].at = "enabled"
  /\ queue' = queue \o QueuedCalls(tool, Tail(direct[n].rest), n)
  /\ direct' = [direct EXCEPT ![n] = DirectCall(tool, Tail(direct[n].rest))]
  /\ UNCHANGED <<tool, HAVE_PYGERBER, combo_cell, combo_layer, path_empty, png_edit, dialog,
                 path_ok, image_path_ok, prepare_thread, prepare_worker, thread, worker, canvas,
                 nested, timer, cursor, controls, save_btn, image, files, started,
                 spin_threshold, worker_thr, image_thr, preview_thr, last_thr, renderVars,
                 thrVars, dispVars, tempVars, cropVars>>

\* The main thread runs the oldest queued slot call: _prepare_finished
\* (stored image, suggested output path, preview, Save button),
\* _prepare_error, QThread.quit or _thread_cleanup.
Deliver ==
  /\ queue # <<>>
  /\ queue' = Tail(queue)
  /\ LET c == Head(queue)
     IN  /\ image' = IF c.slot = "_prepare_finished" THEN c.render ELSE image
         /\ png_edit' = IF c.slot = "_prepare_finished" THEN SuggestOutput ELSE png_edit
         /\ save_btn' = IF c.slot = "_prepare_finished" THEN TRUE
                        ELSE IF c.slot = "_prepare_error" THEN FALSE ELSE save_btn
         /\ thread' = IF c.slot = "quit" /\ thread[c.render] = "running"
                      THEN [thread EXCEPT ![c.render] = "quitting"] ELSE thread
         /\ cursor' = IF c.slot = "_thread_cleanup" /\ cursor > 0 THEN cursor - 1 ELSE cursor
         /\ controls' = IF c.slot = "_thread_cleanup" THEN TRUE ELSE controls
         /\ prepare_thread' = IF c.slot = "_thread_cleanup" THEN 0 ELSE prepare_thread
         /\ prepare_worker' = IF c.slot = "_thread_cleanup" THEN 0 ELSE prepare_worker
         /\ image_thr' = IF c.slot = "_prepare_finished" THEN worker_thr[c.render]
                         ELSE image_thr
         /\ preview_thr' = IF c.slot = "_prepare_finished" THEN worker_thr[c.render]
                           ELSE preview_thr
         /\ worker_thr' = IF c.slot \in {"_prepare_finished", "_prepare_error"}
                          THEN [worker_thr EXCEPT ![c.render] = -1] ELSE worker_thr
  /\ UNCHANGED <<tool, HAVE_PYGERBER, combo_cell, combo_layer, path_empty, dialog, path_ok,
                 image_path_ok, worker, canvas, direct, nested, timer, files, started,
                 spin_threshold, last_thr, renderVars, thrVars, dispVars, tempVars, cropVars>>

\* The thread leaves its event loop and emits finished: _thread_cleanup is
\* queued for the main thread.
ThreadEmitFinished(n) ==
  /\ thread[n] = "quitting"
  /\ thread' = [thread EXCEPT ![n] = "finishing"]
  /\ queue' = Append(queue, [slot |-> "_thread_cleanup", render |-> n])
  /\ UNCHANGED <<tool, HAVE_PYGERBER, combo_cell, combo_layer, path_empty, png_edit, dialog,
                 path_ok, image_path_ok, prepare_thread, prepare_worker, worker, canvas, direct,
                 nested, timer, cursor, controls, save_btn, image, files, started,
                 spin_threshold, worker_thr, image_thr, preview_thr, last_thr, renderVars,
                 thrVars, dispVars, tempVars, cropVars>>

\* The thread has stopped: isRunning() is false from now on.
ThreadStopped(n) ==
  /\ thread[n] = "finishing"
  /\ thread' = [thread EXCEPT ![n] = "finished"]
  /\ UNCHANGED <<tool, HAVE_PYGERBER, combo_cell, combo_layer, path_empty, png_edit, dialog,
                 path_ok, image_path_ok, prepare_thread, prepare_worker, worker, canvas, queue,
                 direct, nested, timer, cursor, controls, save_btn, image, files, started,
                 spin_threshold, worker_thr, image_thr, preview_thr, last_thr, renderVars,
                 thrVars, dispVars, tempVars, cropVars>>

\* self.image.save(fn, format="PNG"), which may fail: the image stored now
\* is written.
ImageSave(ok) ==
  IF ok THEN files \cup {[render |-> image, canvas |-> canvas[image]]} ELSE files

\* save_png (the Save button is enabled, no dialog is open): nothing while
\* self.image is None; with a path in png_edit the stored canvas is written;
\* with png_edit empty QFileDialog.getSaveFileName opens.
SavePng ==
  /\ tool \in FieldTools
  /\ save_btn
  /\ NoDialog
  /\ IF image = 0 THEN UNCHANGED <<files, dialog>>
     ELSE IF ~png_edit
     THEN dialog' = "save_png" /\ UNCHANGED files
     ELSE /\ \E ok \in BOOLEAN : files' = ImageSave(ok)
          /\ UNCHANGED dialog
  /\ UNCHANGED <<tool, HAVE_PYGERBER, combo_cell, combo_layer, path_empty, png_edit, path_ok,
                 image_path_ok, prepare_thread, prepare_worker, thread, worker, canvas, queue,
                 direct, nested, timer, cursor, controls, save_btn, image, started,
                 spin_threshold, worker_thr, image_thr, preview_thr, last_thr, renderVars,
                 thrVars, dispVars, tempVars, cropVars>>

\* The file dialog of save_png returns: without a name (if not fn: return),
\* or with one, and self.image as it is now is written.
SaveDialogReturn ==
  /\ dialog = "save_png"
  /\ dialog' = "none"
  /\ \E chosen \in BOOLEAN, ok \in BOOLEAN : files' = ImageSave(chosen /\ ok)
  /\ UNCHANGED <<tool, HAVE_PYGERBER, combo_cell, combo_layer, path_empty, png_edit, path_ok,
                 image_path_ok, prepare_thread, prepare_worker, thread, worker, canvas, queue,
                 direct, nested, timer, cursor, controls, save_btn, image, started,
                 spin_threshold, worker_thr, image_thr, preview_thr, last_thr, renderVars,
                 thrVars, dispVars, tempVars, cropVars>>

\* MainGUI.prepare_output of gerber2anycubic_png (the Prepare button is
\* enabled) up to QApplication.processEvents(): it returns when the path
\* field names no file, else it hands the pending events to their handlers,
\* a click on Prepare Output, on Save PNG or on a browse button among them.
PrepareSync ==
  /\ tool = "MainGUI"
  /\ controls
  /\ NoDialog
  /\ started + nested < MaxRenders
  /\ nested' = IF path_ok THEN nested + 1 ELSE nested
  /\ UNCHANGED <<tool, HAVE_PYGERBER, combo_cell, combo_layer, path_empty, png_edit, dialog,
                 path_ok, image_path_ok, prepare_thread, prepare_worker, thread, worker, canvas,
                 queue, direct, timer, cursor, controls, save_btn, image, files, started,
                 spin_threshold, worker_thr, image_thr, preview_thr, last_thr, renderVars,
                 thrVars, dispVars, tempVars, cropVars>>

\* processEvents() returns to the prepare_output that called it last (a
\* handler in a file dialog has returned before): the render runs in the
\* handler; self.image is assigned when it returned, and an output path is
\* suggested if png_edit is empty; the Save button is enabled after a render
\* that returned and disabled after one that raised; the finally clause
\* restores the cursor and the button.
PrepareSyncRender ==
  /\ tool = "MainGUI"
  /\ nested > 0
  /\ NoDialog
  /\ nested' = nested - 1
  /\ \E ok \in BOOLEAN :
       /\ started' = started + 1
       /\ worker' = [worker EXCEPT ![started + 1] = IF ok THEN "done" ELSE "failed"]
       /\ canvas' = [canvas EXCEPT ![started + 1] = IF ok THEN "complete" ELSE "partial"]
       /\ image' = IF RunEmits(ok) = "finished" THEN started + 1 ELSE image
       /\ png_edit' = IF RunEmits(ok) = "finished" THEN TRUE ELSE png_edit
       /\ save_btn' = ok
  /\ UNCHANGED <<tool, HAVE_PYGERBER, combo_cell, combo_layer, path_empty, dialog, path_ok,
                 image_path_ok, prepare_thread, prepare_worker, thread, queue, direct, timer,
                 cursor, controls, files, spin_threshold, worker_thr, image_thr, preview_thr,
                 last_thr, renderVars, thrVars, dispVars, tempVars, cropVars>>

\* KreisProjektorGUI.verarbeiten (self.image_path is set): save dialog, then
\* erzeuge_bild, which builds the whole canvas and saves it as its last
\* statement.  The tool has no thread and no timer: nothing runs beside the
\* dialog.
Verarbeiten ==
  /\ tool = "KreisProjektorGUI"
  /\ path_ok
  /\ NoDialog
  /\ started < MaxRenders
  /\ \E accepted \in BOOLEAN, ok \in BOOLEAN, written \in BOOLEAN :
       IF ~accepted
       THEN UNCHANGED <<worker, canvas, files, started>>
       ELSE /\ started' = started + 1
            /\ worker' = [worker EXCEPT ![started + 1] = IF ok THEN "done" ELSE "failed"]
            /\ canvas' = [canvas EXCEPT ![started + 1] = IF ok THEN "complete" ELSE "partial"]
            /\ files' = IF RunEmits(ok) = "finished" /\ written
                        THEN files \cup {[render |-> started + 1, canvas |-> canvas'[started + 1]]}
                        ELSE files
  /\ UNCHANGED <<tool, HAVE_PYGERBER, combo_cell, combo_layer, path_empty, png_edit, dialog,
                 path_ok, image_path_ok, prepare_thread, prepare_worker, thread, queue, direct,
                 nested, timer, cursor, controls, save_btn, image, spin_threshold, worker_thr,
                 image_thr, preview_thr, last_thr, renderVars, thrVars, dispVars, tempVars,
                 cropVars>>

NextGui ==
  \/ PrepareClick \/ ThresholdChange \/ TimerTimeout
  \/ Browse \/ BrowseReturn \/ EditPath \/ EditPng \/ browse_png \/ BrowsePngReturn
  \/ \E n \in Renders : WorkerBegin(n)
  \/ \E n \in Renders : WorkerEnd(n)
  \/ \E n \in Renders : DirectAssign(n)
  \/ \E n \in Renders : DirectSuggest(n)
  \/ \E n \in Renders : DirectPreview(n)
  \/ \E n \in Renders : DirectEnable(n)
  \/ \E n \in Renders : DirectReturn(n)
  \/ Deliver
  \/ \E n \in Renders : ThreadEmitFinished(n)
  \/ \E n \in Renders : ThreadStopped(n)
  \/ SavePng \/ SaveDialogReturn \/ PrepareSync \/ PrepareSyncRender \/ Verarbeiten

SpecGui == InitGui /\ [][NextGui]_vars

\* The event loop of the main thread runs every queued call and returns
\* from processEvents, and a started thread runs: the worker's run() begins
\* and ends, a slot called in the worker's thread runs to its end, and a
\* thread told to quit emits finished and stops.  Nothing obliges the user
\* to click or to close a dialog, or the timer to be armed.
FairGui ==
  /\ WF_vars(Deliver)
  /\ WF_vars(PrepareSyncRender)
  /\ \A n \in Renders :
       /\ WF_vars(WorkerBegin(n))
       /\ WF_vars(WorkerEnd(n))
       /\ WF_vars(DirectAssign(n))
       /\ WF_vars(DirectSuggest(n))
       /\ WF_vars(DirectPreview(n))
       /\ WF_vars(DirectEnable(n))
       /\ WF_vars(DirectReturn(n))
       /\ WF_vars(ThreadEmitFinished(n))
       /\ WF_vars(ThreadStopped(n))

SpecGuiFair == InitGui /\ [][NextGui]_vars /\ FairGui

\* ------------------------------------------------------------------------
\* Properties of the tool windows.
\* ------------------------------------------------------------------------
\* The renders whose worker is in flight: handed to its thread, the render
\* call of run() not yet ended.
InFlight == {n \in Renders : worker[n] \in {"pending", "running"}}

\* C6 (as stated): a tool never has two render workers in flight at once.
C6_AtMostOneRender == Cardinality(InFlight) <= 1

\* C7: every output file was written from the complete canvas of a render
\* that returned; the stored image is such a canvas; no file is written by
\* save_png, and its file dialog is not open, while the stored image is
\* None; a render that failed has no
\* _prepare_finished call queued or under way and its canvas is not the
\* stored image.
C7_NoPartialOutput ==
  /\ \A f \in files : f.canvas = "complete" /\ worker[f.render] = "done"
  /\ image # 0 => (canvas[image] = "complete" /\ worker[image] = "done")
  /\ (tool # "KreisProjektorGUI" /\ image = 0) => (files = {} /\ dialog # "save_png")
  /\ \A n \in Renders :
       worker[n] = "failed" =>
         /\ image # n
         /\ \A i \in DOMAIN queue :
              ~(queue[i].slot = "_prepare_finished" /\ queue[i].render = n)
         /\ \A i \in DOMAIN direct[n].rest : direct[n].rest[i] # "_prepare_finished"

\* A file was written from the canvas of a render, and a later render
\* failed with that canvas still stored.
C7_Witness ==
  /\ files # {}
  /\ image # 0
  /\ \E n \in Renders : n > image /\ worker[n] = "failed" /\ canvas[n] = "partial"

\* The tool is idle: no busy cursor, controls and Prepare enabled, no thread
\* or worker referenced, no prepare_output under way.
Idle == cursor = 0 /\ controls /\ prepare_thread = 0 /\ prepare_worker = 0 /\ nested = 0

\* A Prepare request that starts a render, MainGUI's after the pending
\* events.
PrepareStarts ==
  \/ (PrepareClick \/ Verarbeiten) /\ started' = started + 1
  \/ PrepareSync /\ nested' = nested + 1

\* A Prepare request can be made and its input is valid: no dialog is open,
\* the path field names a file, GDSTab has a cell and a layer to offer,
\* GerberTab has pygerber.
RequestValid == NoDialog /\ path_ok /\ ~NoCellOrLayer /\ ~NoPygerber

\* A render is started by the live preview timer, not by a Prepare request.
StartedByTimer == timer /\ ~timer' /\ started' = started + 1

\* The render started last has failed.
LatestFailed == started > 0 /\ worker[started] = "failed"

\* C8: a render that failed is terminal and not retried: after it the tool
\* starts no render by itself with the threshold of the failed one; and once
\* a render has failed the tool eventually is idle, and in that state a
\* Prepare request with valid input starts a new render (as long as the
\* number of renders followed here is not used up).
C8_FailureTerminalThenIdle ==
  /\ [][(LatestFailed /\ StartedByTimer) => spin_threshold # last_thr]_vars
  /\ \A n \in Renders :
       (worker[n] = "failed") ~>
         (Idle /\ ((RequestValid /\ started < MaxRenders) => ENABLED PrepareStarts))

\* The run() of render n ends in this step.
RunEnds(n) == worker[n] = "running" /\ worker'[n] \in {"done", "failed"}

\* The handler connected to a worker signal.
HandlerOf(signal) == IF signal = "finished" THEN "_prepare_finished" ELSE "_prepare_error"

\* The step called, for render n, the handler of exactly the signal s and
\* after it the thread's quit, and nothing else: the calls it queued for the
\* main thread and the calls emit has yet to make.
EmittedOnly(s, n) ==
  /\ Len(queue') >= Len(queue) /\ SubSeq(queue', 1, Len(queue)) = queue
  /\ LET queued == SubSeq(queue', Len(queue) + 1, Len(queue'))
     IN  /\ \A i \in DOMAIN queued : queued[i].render = n
         /\ [i \in DOMAIN queued |-> queued[i].slot] \o direct'[n].rest
              = <<HandlerOf(s), "quit">>

\* C28: a worker's run() emits exactly one of finished and error (never
\* both, never neither), and the thread's quit is called after the handler
\* of either.
C28_ExactlyOneSignal ==
  [][\A n \in Renders :
       RunEnds(n) => (EmittedOnly("finished", n) \/ EmittedOnly("error", n))]_vars

\* A run() raised: the main thread's queue holds the error handler and the
\* quit of that render, and the thread still runs its event loop.
C28_Witness ==
  /\ tool \in ThreadedTools
  /\ \E n \in Renders :
       /\ worker[n] = "failed" /\ thread[n] = "running"
       /\ queue = <<[slot |-> "_prepare_error", render |-> n], [slot |-> "quit", render |-> n]>>

\* C29: the Save PNG button is enabled only if no render is in flight, the
\* stored image is not None, and the render started last returned and its
\* canvas is the stored image; so after a render that failed the button is
\* disabled until a later render returns.
C29_SaveOnlyAfterSuccess ==
  save_btn =>
    /\ InFlight = {}
    /\ image # 0
    /\ started > 0 /\ worker[started] = "done" /\ image = started

\* The _thread_cleanup calls queued for render n.
CleanupsQueued(n) ==
  {i \in DOMAIN queue : queue[i] = [slot |-> "_thread_cleanup", render |-> n]}

\* The renders that keep the tool busy: started by prepare_output, their
\* _thread_cleanup not yet run.
BusyRenders ==
  {n \in Renders : thread[n] \in {"running", "quitting"} \/ CleanupsQueued(n) # {}}

\* C30: the busy state is balanced.  The override cursor count is 1 while a
\* started render awaits its cleanup and 0 otherwise, the controls are
\* disabled exactly then, the thread and worker references are those of
\* that render exactly then, and no render has two cleanups queued.
C30_BusyBalanced ==
  /\ cursor = (IF BusyRenders # {} THEN 1 ELSE 0)
  /\ controls = (BusyRenders = {})
  /\ (prepare_thread # 0) = (BusyRenders # {})
  /\ (prepare_worker # 0) = (BusyRenders # {})
  /\ prepare_thread # 0 => prepare_thread \in BusyRenders
  /\ prepare_worker # 0 => prepare_worker \in BusyRenders
  /\ \A n \in Renders : Cardinality(CleanupsQueued(n)) <= 1

\* Nothing is pending in the window: the timer is not active, no slot call
\* is queued, no worker is in flight and every thread has stopped.
Settled ==
  /\ ~timer /\ queue = <<>> /\ InFlight = {} /\ nested = 0
  /\ \A n \in Renders : direct[n] = NoDirectCall
  /\ \A n \in Renders : thread[n] \in {"none", "finished"}

\* A change of the threshold made while a bitmap file is selected starts the
\* debounce timer.
ChangeArmsTimer == (spin_threshold' # spin_threshold /\ path_ok) => timer'

\* When the timer stops being active, a render with the threshold of the
\* field has been started (unless the path names no file any more); while a
\* render is in flight the timer stays active.
TimeoutRenders ==
  (timer /\ ~timer') =>
    \/ ~path_ok
    \/ /\ started' = started + 1
       /\ worker_thr'[started'] = spin_threshold'
       /\ last_thr' = spin_threshold'
       /\ worker'[started'] = "pending"

\* The preview finally shown was computed with the threshold of the latest
\* render, when that render returned a canvas.
FinalPreviewIsLatest ==
  (tool = "BitmapTab" /\ Settled /\ started > 0 /\ worker[started] = "done") =>
    /\ image # 0
    /\ preview_thr = last_thr

\* C14: in the bitmap tab every threshold change made while a file is
\* selected requests a full re-render through the debounce timer; the timer
\* is never dropped while a render is in flight, and when it stops a render
\* with the threshold of the field starts; once everything has settled the
\* preview shown is the one of that latest render.
C14_LivePreview ==
  /\ [](FinalPreviewIsLatest)
  /\ [][tool = "BitmapTab" => (ChangeArmsTimer /\ TimeoutRenders)]_vars

\* ------------------------------------------------------------------------
\* The display geometry: the shared DisplayModel of the toolkit and the
\* globals of a stand-alone tool, the spin boxes that show it and the
\* settings store it is read from.

DispKeys == {"pix_w", "pix_h", "mm_w", "mm_h"}

\* The toolkit's main window and the main window of the stand-alone Gerber
\* tool.
DisplayApps == {"PhotomaskMain", "MainGUI"}

TabsOf(a) == IF a = "PhotomaskMain" THEN {"GerberTab", "GDSTab", "BitmapTab"} ELSE {"MainGUI"}

\* The range of a display spin box: 1 .. 200000 pixels, 0.001 .. 10000 mm
\* (in thousandths of a millimetre).
SpinRange(key) ==
  IF key \in {"pix_w", "pix_h"} THEN [lo |-> 1, hi |-> 200000] ELSE [lo |-> 1, hi |-> 10000000]

\* QSpinBox.setValue: the value is brought into the range of the box.
SetValue(key, v) == Max(SpinRange(key).lo, Min(v, SpinRange(key).hi))

\* _sync_from_model: the four boxes of a tab are set to the values of m.
SyncFromModel(m) == [k \in DispKeys |-> SetValue(k, m[k])]

\* The values a display/* key of the store may hold; a key may be absent.
StoredValues(key) ==
  CASE key = "pix_w" -> {0, 12}
    [] key = "pix_h" -> {8}
    [] key = "mm_w" -> {0, 8000}
    [] key = "mm_h" -> {8000}

Stores ==
  {st \in UNION {[S -> {0, 8, 12, 8000}] : S \in SUBSET DispKeys} :
     \A k \in DOMAIN st : st[k] \in StoredValues(k)}

\* QSettings.value(key, default)
SettingsValue(key, default) == IF key \in DOMAIN settings THEN settings[key] ELSE default

\* The values a user sets a display spin box to.
EditValues(key) ==
  CASE key = "pix_w" -> {12, DisplayDefault.pix_w}
    [] key = "pix_h" -> {8, DisplayDefault.pix_h}
    [] key = "mm_w" -> {8000, DisplayDefault.mm_w}
    [] key = "mm_h" -> {8000, DisplayDefault.mm_h}

NoGeometryUsed == [pix_w |-> 0, pix_h |-> 0, mm_w |-> 0, mm_h |-> 0]

\* Every dimension is positive.
Positive(g) == \A k \in DispKeys : g[k] > 0

\* The spin boxes of a window under construction.  A tab of the toolkit ends
\* its constructor with _sync_from_model, so its boxes show the model; the
\* boxes of MainGUI are created with setRange only and hold the lower end of
\* their range until load_settings sets them.
ConstructedFields(a) ==
  [t \in TabsOf(a) |->
     IF a = "PhotomaskMain" THEN SyncFromModel(DisplayDefault)
     ELSE [k \in DispKeys |-> SpinRange(k).lo]]

\* The module is imported and the window's tabs are constructed: the model
\* (the globals of the stand-alone tool) has its defaults; the settings have
\* not been read yet.
Constructed ==
  /\ win' = "constructing"
  /\ disp_model' = DisplayDefault
  /\ fields' = ConstructedFields(app)
  /\ prep' = "none"
  /\ used' = NoGeometryUsed

InitDisplay ==
  /\ app \in DisplayApps
  /\ win = "constructing"
  /\ disp_model = DisplayDefault
  /\ fields = ConstructedFields(app)
  /\ settings \in Stores
  /\ prep = "none"
  /\ used = NoGeometryUsed
  /\ NoRenderCall
  /\ NoThreshold
  /\ NoWindow
  /\ NoTempCells
  /\ NoCrop

\* DisplayModel.set_values(v), called when the spin boxes hold f: the values
\* are stored, and changed is emitted if one of them differs: every tab's
\* _sync_from_model runs before set_values returns.
set_values(v, f) ==
  /\ disp_model' = v
  /\ fields' = IF v # disp_model THEN [t \in DOMAIN f |-> SyncFromModel(v)] ELSE f

\* MainGUI.apply_user_values with the spin boxes holding g: the globals are
\* set unless a value is not positive.
apply_user_values(g) ==
  disp_model' = IF Positive(g) THEN g ELSE disp_model

\* The last step of the constructor. PhotomaskMain._load_global_display_settings
\* hands the stored values to the model; MainGUI.load_settings sets the spin
\* boxes to them and applies the spin boxes' values.
LoadDisplaySettings ==
  /\ win = "constructing"
  /\ win' = "open"
  /\ LET v == [k \in DispKeys |-> SettingsValue(k, disp_model[k])]
     IN  IF app = "PhotomaskMain"
         THEN set_values(v, fields)
         ELSE /\ fields' = [t \in DOMAIN fields |-> SyncFromModel(v)]
              /\ apply_user_values(SyncFromModel(v))
  /\ UNCHANGED <<app, settings, prep, used, renderVars, thrVars, guiVars, tempVars, cropVars>>

\* The user sets one display spin box of a tab to another value. In the
\* toolkit valueChanged calls _on_display_changed, which hands the four values
\* of this tab to the model; the stand-alone tool reads the boxes on Prepare.
EditField(t, key, v) ==
  /\ win = "open"
  /\ v # fields[t][key]
  /\ LET f == [fields EXCEPT ![t][key] = v]
     IN  IF app = "PhotomaskMain"
         THEN set_values(f[t], f)
         ELSE fields' = f /\ UNCHANGED disp_model
  /\ UNCHANGED <<app, win, settings, prep, used, renderVars, thrVars, guiVars, tempVars, cropVars>>

\* Prepare Output in a tab with an input file selected. The toolkit's tabs
\* start a worker with the values of the model; MainGUI applies the spin
\* boxes' values first and starts no worker when that fails.
DisplayPrepare(t) ==
  /\ win = "open"
  /\ IF app = "PhotomaskMain"
     THEN /\ prep' = "started"
          /\ used' = disp_model
          /\ UNCHANGED disp_model
     ELSE /\ apply_user_values(fields[t])
          /\ prep' = IF Positive(fields[t]) THEN "started" ELSE "invalid"
          /\ used' = IF Positive(fields[t]) THEN fields[t] ELSE used
  /\ UNCHANGED <<app, win, fields, settings, renderVars, thrVars, guiVars, tempVars, cropVars>>

\* MainGUI.save_settings: the display/* keys are written from the spin
\* boxes.
save_settings == settings' = fields["MainGUI"]

\* PhotomaskMain._save_global_display_settings: the display/* keys are
\* written from the model.
save_global_display_settings == settings' = disp_model

\* MainGUI stores its settings while the window is open: at the end of
\* browse_gerber and browse_png with a file chosen, of _prepare_finished and
\* of save_png.  The tabs of the toolkit store their own keys there and leave
\* display/* alone.
SaveSettings ==
  /\ win = "open"
  /\ app = "MainGUI"
  /\ save_settings
  /\ UNCHANGED <<app, win, disp_model, fields, prep, used, renderVars, thrVars, guiVars, tempVars, cropVars>>

\* closeEvent: the toolkit stores the model's values, the stand-alone tool
\* the values of its spin boxes.
CloseEvent ==
  /\ win = "open"
  /\ win' = "closed"
  /\ IF app = "PhotomaskMain" THEN save_global_display_settings ELSE save_settings
  /\ UNCHANGED <<app, disp_model, fields, prep, used, renderVars, thrVars, guiVars, tempVars, cropVars>>

\* The program is started again with the settings it left.
StartAgain ==
  /\ win = "closed"
  /\ Constructed
  /\ UNCHANGED <<app, settings, renderVars, thrVars, guiVars, tempVars, cropVars>>

NextDisplay ==
  \/ LoadDisplaySettings
  \/ \E t \in DOMAIN fields : \E key \in DispKeys : \E v \in EditValues(key) : EditField(t, key, v)
  \/ \E t \in DOMAIN fields : DisplayPrepare(t)
  \/ SaveSettings
  \/ CloseEvent
  \/ StartAgain

SpecDisplay == InitDisplay /\ [][NextDisplay]_vars

\* Every tab of the toolkit shows the values of the shared model.
FieldsShowModel ==
  (app = "PhotomaskMain" /\ win = "open") => \A t \in DOMAIN fields : fields[t] = disp_model

\* A render started from a tab of the toolkit is handed the model's values,
\* which are the values the tabs show.
RenderUsesModel ==
  (app = "PhotomaskMain" /\ prep' = "started" /\ \E t \in DOMAIN fields : DisplayPrepare(t)) =>
    /\ used' = disp_model'
    /\ \A t \in DOMAIN fields : fields'[t] = used'

\* C13: in the toolkit, after any edits of display fields in any tab and
\* any load of the settings, the four display fields of the Gerber, GDS and
\* Bitmap tabs equal the values of the shared DisplayModel, and a render
\* started from any tab uses those values.
C13_SharedDisplayGeometry == [](FieldsShowModel) /\ [][RenderUsesModel]_vars

\* The configuration a Prepare request reads: the model in the toolkit, the
\* spin boxes in the stand-alone tool.
Configured == IF app = "PhotomaskMain" THEN disp_model ELSE fields["MainGUI"]

\* A Prepare request with a dimension that is not positive reports the
\* failure, starts no worker and leaves the geometry as it is.
InvalidGuarded ==
  ((\E t \in DOMAIN fields : DisplayPrepare(t)) /\ ~Positive(Configured)) =>
    (prep' = "invalid" /\ disp_model' = disp_model /\ used' = used)

\* No worker is handed a dimension that is not positive.
NoRenderNonPositive == prep = "started" => Positive(used)

\* C15: a Prepare request made while a display dimension is not positive
\* reports a failure, starts no render and leaves the stored geometry
\* unchanged; no render ever runs with a dimension that is not positive.
C15_InvalidConfigurationGuarded == [](NoRenderNonPositive) /\ [][InvalidGuarded]_vars

\* ------------------------------------------------------------------------
\* Repeated GDS renders: the temporary cells of successive and overlapping
\* render calls.  A cell name is a pair: <<name, 0>> is that name, and
\* <<"__temp_flat__", k>> with k > 0 is "__temp_flat__" followed by the hex
\* digits of the k-th UUID drawn.

MaxCalls == 3

TempCalls == 1 .. MaxCalls

\* The GDS files GDSKreisProjektorGUI is made to load, one after the other.
MaxLoads == 2

\* The library objects: a renderer loads one in every call (the r-th call
\* the r-th object), gds_laden one for every file chosen.
LibObjects == 1 .. Max(MaxCalls, MaxLoads)

\* The cells of the GDS file: a top cell, and in the second file also a cell
\* with the name "__temp_flat__".
GdsFiles == {{<<"TOP", 0>>}, {<<"TOP", 0>>, <<"__temp_flat__", 0>>}}

\* gdspy.GdsLibrary(infile=...): the cells of the file, created by no call.
FileTable(file) == [n \in file |-> 0]

\* temp_name = f"__temp_flat__{uuid.uuid4().hex}" in the renderers (the r-th
\* call draws a UUID no other call drew); "__temp_flat__" in verarbeiten.
TempNameOf(which, r) == IF which = "gds_gui" THEN <<"__temp_flat__", 0>> ELSE <<"__temp_flat__", r>>

\* The library object of call r: self.library of the window as it was when
\* verarbeiten was called, or the GdsLibrary the renderer loaded for this call.
LibOf(r) == t_libof[r]

\* cells[name] = the cell created by call r
Put(cells, name, r) == [n \in DOMAIN cells \cup {name} |-> IF n = name THEN r ELSE cells[n]]

\* if name in cells: del cells[name]
Del(cells, name) == [n \in DOMAIN cells \ {name} |-> cells[n]]

\* The window is constructed with self.library = None; no renderer was
\* called and no library object exists.
InitTemp ==
  /\ t_tool \in {"gds", "gds_gui"}
  /\ t_release \in CopyRegisters
  /\ t_file = [o \in LibObjects |-> {}]
  /\ t_lib = [o \in LibObjects |-> FileTable({})]
  /\ t_self = 0
  /\ t_libof = [r \in TempCalls |-> 0]
  /\ t_cur = FileTable({})
  /\ t_name = [r \in TempCalls |-> <<"", 0>>]
  /\ t_pc = [r \in TempCalls |-> "none"]
  /\ t_started = 0
  /\ NoRenderCall
  /\ NoThreshold
  /\ NoWindow
  /\ NoDisplay
  /\ NoCrop

\* GDSKreisProjektorGUI.gds_laden with a file chosen in the dialog:
\* self.library becomes a new GdsLibrary with the cells of that file.  It
\* runs in the main thread, before, between and after the calls of
\* verarbeiten.
gds_laden(file) ==
  /\ t_tool = "gds_gui"
  /\ t_self < MaxLoads
  /\ \A q \in TempCalls : t_pc[q] # "copied"
  /\ t_self' = t_self + 1
  /\ t_file' = [t_file EXCEPT ![t_self + 1] = file]
  /\ t_lib' = [t_lib EXCEPT ![t_self + 1] = FileTable(file)]
  /\ UNCHANGED <<t_tool, t_release, t_libof, t_cur, t_name, t_pc, t_started, renderVars, thrVars,
                 guiVars, dispVars, cropVars>>

\* Call r from its start to original_cell.copy(name=temp_name).  A renderer
\* loads the library from the file it is handed; verarbeiten takes
\* self.library and returns at once when there is none.  A release that
\* enters the copy in gdspy.current_library refuses a name that is in that
\* table already (ValueError), the library of the call is no table a copy
\* is entered in.  verarbeiten runs in the main thread, one call after the
\* other; the renderers run in worker threads.
TempCopy(r, file) ==
  /\ r = t_started + 1
  /\ r <= MaxCalls
  /\ t_tool = "gds_gui" => /\ \A q \in TempCalls : t_pc[q] # "copied"
                           /\ t_self # 0
                           /\ file = t_file[t_self]
  /\ t_started' = r
  /\ LET name   == TempNameOf(t_tool, r)
         o      == IF t_tool = "gds_gui" THEN t_self ELSE r
         loaded == IF t_tool = "gds_gui" THEN t_lib[o] ELSE FileTable(file)
     IN  /\ t_name' = [t_name EXCEPT ![r] = name]
         /\ t_libof' = [t_libof EXCEPT ![r] = o]
         /\ t_file' = [t_file EXCEPT ![o] = file]
         /\ t_lib' = [t_lib EXCEPT ![o] = loaded]
         /\ IF t_release = "current_library" /\ name \in DOMAIN t_cur
            THEN /\ t_pc' = [t_pc EXCEPT ![r] = "raised"]
                 /\ UNCHANGED t_cur
            ELSE /\ t_pc' = [t_pc EXCEPT ![r] = "copied"]
                 /\ t_cur' = IF t_release = "current_library" THEN Put(t_cur, name, r)
                             ELSE t_cur
  /\ UNCHANGED <<t_tool, t_release, t_self, renderVars, thrVars, guiVars, dispVars, cropVars>>

\* Call r ends.  The renderers delete temp_name from lib.cells, if it is
\* there, on their return and where they raise for a layer without geometry
\* or a cell without bounding box, but not where the division by a zero
\* display size raises; verarbeiten deletes "__temp_flat__" from
\* self.library.cells, if it is there, at its end, but not where it returns
\* early.
TempEnd(r, how) ==
  /\ t_pc[r] = "copied"
  /\ t_pc' = [t_pc EXCEPT ![r] = how]
  /\ LET deletes == IF t_tool = "gds" THEN how # "ZeroDivisionError" ELSE how = "returned"
     IN  t_lib' = IF deletes THEN [t_lib EXCEPT ![LibOf(r)] = Del(@, t_name[r])] ELSE t_lib
  /\ UNCHANGED <<t_tool, t_release, t_file, t_self, t_libof, t_cur, t_name, t_started, renderVars,
                 thrVars, guiVars, dispVars, cropVars>>

NextTemp ==
  \/ \E file \in GdsFiles : gds_laden(file)
  \/ \E r \in TempCalls : \E file \in GdsFiles : TempCopy(r, file)
  \/ \E r \in TempCalls : \E how \in {"returned", "no geometry", "ZeroDivisionError"} : TempEnd(r, how)

SpecTemp == InitTemp /\ [][NextTemp]_vars

\* The calls that got as far as their temporary name.
Named == {r \in TempCalls : t_pc[r] # "none"}

\* Two calls work against the same library: they have the same library
\* object, or the release enters every copy in the one current_library.
SameLibrary(r, q) == LibOf(r) = LibOf(q) \/ t_release = "current_library"

\* No two calls against the same library have the same temporary name.
NamesDiffer ==
  \A r \in Named : \A q \in Named : (r # q /\ SameLibrary(r, q)) => t_name[r] # t_name[q]

\* No temporary name is the name of a cell of the file the call's library
\* was loaded from.
NamesNotInFile == \A r \in Named : t_name[r] \notin t_file[LibOf(r)]

\* The cells of the file are in the library of every call as they were
\* loaded.
FileCellsKept ==
  \A r \in Named : \A n \in t_file[LibOf(r)] :
    n \in DOMAIN t_lib[LibOf(r)] /\ t_lib[LibOf(r)][n] = 0

\* C23: the temporary name of a render call is never the name of a cell
\* already in the library and never the temporary name of another call on
\* the same library, repeated or overlapping, also after a call that ended
\* early; no call replaces or deletes a cell it did not create.
C23_FreshTempName == NamesDiffer /\ NamesNotInFile /\ FileCellsKept

\* ------------------------------------------------------------------------
\* The square crop of the content image, as the first tool and the
\* refactored tools compute it.
\* ------------------------------------------------------------------------
MaxSide == 12

ContentSizes == [w : 1 .. MaxSide, h : 1 .. MaxSide]

InitCrop ==
  /\ content_size \in ContentSizes
  /\ box_legacy = NoBox
  /\ box_refactored = NoBox
  /\ NoRenderCall
  /\ NoThreshold
  /\ NoWindow
  /\ NoDisplay
  /\ NoTempCells

\* KreisProjektorGUI.place_in_circle up to content_img.crop(...)
PlaceInCircleLegacyCrop ==
  /\ box_legacy = NoBox
  /\ box_legacy' = CropBoxLegacy(content_size.w, content_size.h)
  /\ UNCHANGED <<content_size, box_refactored, renderVars, thrVars, guiVars, dispVars, tempVars>>

\* _bmp_place_in_circle up to content_img.crop(...)
BmpPlaceInCircleCrop ==
  /\ box_refactored = NoBox
  /\ box_refactored' = CropBox(content_size.w, content_size.h)
  /\ UNCHANGED <<content_size, box_legacy, renderVars, thrVars, guiVars, dispVars, tempVars>>

NextCrop == PlaceInCircleLegacyCrop \/ BmpPlaceInCircleCrop

SpecCrop == InitCrop /\ [][NextCrop]_vars

\* The box is a square of side min(w, h) inside a w by h image, takes the
\* whole of the shorter axis, and leaves margins on the longer axis that
\* differ by at most one pixel.
CentredSquare(box, w, h) ==
  LET left == box[1]  top == box[2]  right == box[3]  bottom == box[4]
  IN  /\ right - left = Min(w, h) /\ bottom - top = Min(w, h)
      /\ 0 <= left /\ right <= w /\ 0 <= top /\ bottom <= h
      /\ w <= h => (left = 0 /\ right = w)
      /\ h <= w => (top = 0 /\ bottom = h)
      /\ (w - right) - left \in {0, 1}
      /\ (h - bottom) - top \in {0, 1}

\* C27: the crop box is a square of side min(w, h) inside the source, trimmed
\* from the longer axis only with margins that differ by at most one pixel,
\* and the box of the first tool and the box of the refactored tools are the
\* same box for every width and height.
C27_CropBoxesAgree ==
  /\ box_legacy # NoBox => CentredSquare(box_legacy, content_size.w, content_size.h)
  /\ box_refactored # NoBox => CentredSquare(box_refactored, content_size.w, content_size.h)
  /\ (box_legacy # NoBox /\ box_refactored # NoBox) => box_legacy = box_refactored

\* Both tools cropped an image wider than high by an odd number of pixels:
\* the right margin is one pixel wider than the left one.
C27_Witness ==
  /\ box_legacy # NoBox /\ box_refactored # NoBox
  /\ content_size.w > content_size.h + 2 /\ (content_size.w - content_size.h) % 2 = 1
  /\ box_refactored[1] > 0
  /\ (content_size.w - box_refactored[3]) - box_refactored[1] = 1

=============================================================================
